---- MODULE Spec2Model ----
(***************************************************************************)
(* IronBee inspection core: hook registration and dispatch, the Lua        *)
(* module bridge's hook wiring, and the Eudoxus (ee) pattern operators     *)
(* with their per-transaction automaton state.                             *)
(***************************************************************************)
EXTENDS Integers, Sequences, FiniteSets, TLC

VARIABLES
    hooks,        \* ib->hooks: state -> list of registered hook entries
    nreg,         \* state -> number of hooks registered for it so far (stamps entries)
    logevent_hooks, \* callbacks registered against the log-event notification
    wired,        \* Lua modules whose callbacks have been wired
    ran,          \* module -> number of hook invocations that completed IB_OK
    delivery,     \* the last state notification: state, hook results, calls, rc
    txs,          \* transaction -> "none" | "active" | "finished"
    module_data,  \* transaction -> this module's hash in tx->data (or NullHash)
    ee_data,      \* every ee_tx_data_t whose automaton state was created
    captures,     \* capture collection -> its item 0 (or NoItem)
    last,         \* the last operator call: arguments, status, result
    crashed,      \* the process died on a NULL dereference
    lua_created,  \* Lua runtimes the resource pool has created so far
    lua_free,     \* runtimes lying in the pool
    lua_lost,     \* runtimes whose callback returned without releasing them
    worker,       \* worker -> where it is in a bridged callback
    operator_data, \* operator instance -> its ee_operator_data_t
    exec,         \* worker -> the streaming execution it is inside of
    ownership_fns, \* rule ownership functions, in registration order
    rules,        \* rule -> how its registration was arbitrated (or NoRule)
    default_rules, \* the default rule system's list
    injection_fns, \* phase -> rule injection functions, in registration order
    injected,     \* the last injection query: phase, calls, rules
    block_pre_hooks,  \* pre-block hooks, in registration order
    block_handler,    \* the block handler (or NoHandler)
    last_handler,     \* the handler of the latest register_block_handler call
    block_post_hooks, \* post-block hooks, in registration order
    blocked,      \* the last block request: registry at the time, flag, trace
    cfg_state,    \* the engine's configuration phase
    wiring,       \* the last hook registration or module wiring: inputs, status
    lua_loaded,   \* the runtimes in which the Lua module is loaded
    handled,      \* the last bridged callback that came to its end
    eudoxus_pattern_hash, \* pattern name -> the automaton loaded under it
    instances,    \* the operator instances handed to the rule engine
    pattern_call, \* the last pattern directive or operator creation
    directives,   \* directive name -> the shape and handler registered for it
    directive_call, \* the last directive registration or invocation
    nested,       \* worker -> the log-event callback its running handler raised
    pushed,       \* the last modlua_callback_setup: the event and the arguments pushed
    returned,     \* the last return of a bridged callback: its steps and its status
    luamod        \* the last load of a Lua module: its steps and its status

hookvars == <<hooks, nreg, logevent_hooks, wired, ran, delivery>>
eevars == <<txs, module_data, ee_data, captures, last, crashed>>
bridgevars == <<lua_created, lua_free, lua_lost, worker>>
corevars == <<hookvars, eevars>>
workvars == <<operator_data, exec>>
ownervars == <<ownership_fns, rules, default_rules>>
injectvars == <<injection_fns, injected>>
blockvars == <<block_pre_hooks, block_handler, last_handler, block_post_hooks, blocked>>
rulevars == <<ownervars, injectvars, blockvars>>
reloadvars == <<lua_loaded, handled>>
patternvars == <<eudoxus_pattern_hash, instances, pattern_call>>
dirvars == <<directives, directive_call>>
afterreturned == <<luamod>>
afterpushed == <<returned, afterreturned>>
afternested == <<pushed, afterpushed>>
tailvars == <<nested, afternested>>
afterreload == <<patternvars, dirvars, tailvars>>
afterpattern == <<dirvars, tailvars>>
morevars == <<reloadvars, patternvars, dirvars, tailvars>>
latevars == <<cfg_state, wiring, morevars>>
extvars == <<bridgevars, workvars, rulevars, latevars>>
vars == <<hooks, nreg, logevent_hooks, wired, ran, delivery,
          txs, module_data, ee_data, captures, last, crashed,
          lua_created, lua_free, lua_lost, worker, operator_data, exec,
          ownership_fns, rules, default_rules, injection_fns, injected,
          block_pre_hooks, block_handler, last_handler, block_post_hooks, blocked,
          cfg_state, wiring, lua_loaded, handled,
          eudoxus_pattern_hash, instances, pattern_call,
          directives, directive_call, nested, pushed, returned, luamod>>

(***************************************************************************)
(* Status codes (ib_status_t).                                             *)
(***************************************************************************)
IB_OK == "IB_OK"
IB_ENOENT == "IB_ENOENT"
IB_EINVAL == "IB_EINVAL"
IB_EALLOC == "IB_EALLOC"
IB_EOTHER == "IB_EOTHER"
IB_EUNKNOWN == "IB_EUNKNOWN"
IB_ENOTIMPL == "IB_ENOTIMPL"
IB_EEXIST == "IB_EEXIST"

(***************************************************************************)
(* Bounds of the model.                                                    *)
(***************************************************************************)
MaxHooks == 3      \* hook entries per state
MaxRuns == 2       \* completed hook runs per module before notifying stops

(***************************************************************************)
(* Event taxonomy: the states the wiring loop walks, in enum order, and    *)
(* the hook shape of each.                                                 *)
(***************************************************************************)
StateOrder == <<"conn_opened_state", "tx_finished_state">>

States == {StateOrder[i] : i \in 1..Len(StateOrder)}

ib_state_hook_type(state) ==
    CASE state = "conn_opened_state" -> "IB_STATE_HOOK_CONN"
      [] state = "tx_finished_state" -> "IB_STATE_HOOK_TX"
      [] OTHER -> "IB_STATE_HOOK_INVALID"

NativeModules == {"modA"}
LuaModules == {"lua1"}
Modules == NativeModules \cup LuaModules \cup {"ee"}

NoDelivery == [state |-> "none", tx |-> "none", rcs |-> <<>>, calls |-> <<>>, rc |-> IB_OK]

(***************************************************************************)
(* HookRegistry: ib_hook_<shape>_register.  The shape of the registering   *)
(* function must be the shape of the state; the entry goes to the end of   *)
(* the state's list.                                                       *)
(***************************************************************************)
\* A registry that puts a new entry at the head of the state's list.
hook_register_prepend(hs, state, shape, entry, allocrc) ==
    IF ib_state_hook_type(state) # shape
    THEN [rc |-> IB_EINVAL, hooks |-> hs]
    ELSE IF allocrc # IB_OK
    THEN [rc |-> allocrc, hooks |-> hs]
    ELSE [rc |-> IB_OK, hooks |-> [hs EXCEPT ![state] = <<entry>> \o @]]

\* The registry: the new entry goes to the tail of the state's list.
hook_register(hs, state, shape, entry, allocrc) ==
    IF ib_state_hook_type(state) # shape
    THEN [rc |-> IB_EINVAL, hooks |-> hs]
    ELSE IF allocrc # IB_OK
    THEN [rc |-> allocrc, hooks |-> hs]
    ELSE [rc |-> IB_OK, hooks |-> [hs EXCEPT ![state] = Append(@, entry)]]

(***************************************************************************)
(* EngineStateMachine: one notification of a state.  Hooks are called in   *)
(* list order; the first non-OK result ends the delivery and is returned.  *)
(* rcs[i] is what hook i returns if it is called.                          *)
(***************************************************************************)
\* A dispatch that goes on to the next hook after a failure.
RECURSIVE state_notify_skip_failed(_, _, _)
state_notify_skip_failed(hs, rcs, i) ==
    IF i > Len(hs) THEN [rc |-> IB_OK, calls |-> <<>>]
    ELSE LET rest == state_notify_skip_failed(hs, rcs, i + 1)
         IN  [rc |-> IF rcs[i] # IB_OK THEN rcs[i] ELSE rest.rc,
              calls |-> <<hs[i]>> \o rest.calls]

\* The dispatch: stop at the first hook that does not return IB_OK.
RECURSIVE state_notify(_, _, _)
state_notify(hs, rcs, i) ==
    IF i > Len(hs) THEN [rc |-> IB_OK, calls |-> <<>>]
    ELSE IF rcs[i] # IB_OK THEN [rc |-> rcs[i], calls |-> <<hs[i]>>]
    ELSE LET rest == state_notify(hs, rcs, i + 1)
         IN  [rc |-> rest.rc, calls |-> <<hs[i]>> \o rest.calls]

\* Number of entries of module m among the first n calls that returned IB_OK.
RECURSIVE CompletedRuns(_, _, _, _)
CompletedRuns(calls, rcs, m, i) ==
    IF i > Len(calls) THEN 0
    ELSE (IF calls[i].module = m /\ rcs[i] = IB_OK THEN 1 ELSE 0)
         + CompletedRuns(calls, rcs, m, i + 1)

(***************************************************************************)
(* DynamicModuleBridge: modlua_module_load_wire_callbacks.                 *)
(* probe[state] is module_has_callback's result for the module, levprobe   *)
(* is modlua_has_callback_logevents's, allocrc[state] the result of the    *)
(* registration's allocation.                                              *)
(***************************************************************************)
modlua_callback(shape) ==
    CASE shape = "IB_STATE_HOOK_NULL" -> "modlua_null"
      [] shape = "IB_STATE_HOOK_CTX" -> "modlua_ctx"
      [] shape = "IB_STATE_HOOK_CONN" -> "modlua_conn"
      [] shape = "IB_STATE_HOOK_TX" -> "modlua_tx"
      [] shape = "IB_STATE_HOOK_TXDATA" -> "modlua_txdata"
      [] shape = "IB_STATE_HOOK_REQLINE" -> "modlua_reqline"
      [] shape = "IB_STATE_HOOK_RESPLINE" -> "modlua_respline"
      [] shape = "IB_STATE_HOOK_HEADER" -> "modlua_header"
      [] OTHER -> "none"

\* A loop iteration that registers the module's callback twice.
wire_state_twice(hs, n, m, state, has, allocrc) ==
    LET shape == ib_state_hook_type(state)
        e1 == [module |-> m, callback |-> modlua_callback(shape), seq |-> n[state] + 1]
        e2 == [module |-> m, callback |-> modlua_callback(shape), seq |-> n[state] + 2]
    IN  IF has # IB_OK THEN [rc |-> has, hooks |-> hs, nreg |-> n]
        ELSE IF shape = "IB_STATE_HOOK_INVALID" THEN [rc |-> IB_OK, hooks |-> hs, nreg |-> n]
        ELSE LET r1 == hook_register(hs, state, shape, e1, allocrc)
                 r2 == hook_register(r1.hooks, state, shape, e2, allocrc)
             IN  [rc |-> r2.rc, hooks |-> r2.hooks,
                  nreg |-> IF r2.rc = IB_OK THEN [n EXCEPT ![state] = @ + 2] ELSE n]

\* An iteration that registers the callback although the probe found none.
wire_state_unprobed(hs, n, m, state, has, allocrc) ==
    LET shape == ib_state_hook_type(state)
        entry == [module |-> m, callback |-> modlua_callback(shape), seq |-> n[state] + 1]
    IN  IF has # IB_OK /\ has # IB_ENOENT THEN [rc |-> has, hooks |-> hs, nreg |-> n]
        ELSE IF shape = "IB_STATE_HOOK_INVALID" THEN [rc |-> IB_OK, hooks |-> hs, nreg |-> n]
        ELSE LET r == hook_register(hs, state, shape, entry, allocrc)
             IN  [rc |-> r.rc, hooks |-> r.hooks,
                  nreg |-> IF r.rc = IB_OK THEN [n EXCEPT ![state] = @ + 1] ELSE n]

\* One iteration of the loop over the states: probe, then register with the
\* registration function of the state's hook shape.
wire_state(hs, n, m, state, has, allocrc) ==
    LET shape == ib_state_hook_type(state)
        entry == [module |-> m, callback |-> modlua_callback(shape), seq |-> n[state] + 1]
    IN  IF has # IB_OK THEN [rc |-> has, hooks |-> hs, nreg |-> n]
        ELSE IF shape = "IB_STATE_HOOK_INVALID" THEN [rc |-> IB_OK, hooks |-> hs, nreg |-> n]
        ELSE LET r == hook_register(hs, state, shape, entry, allocrc)
             IN  [rc |-> r.rc, hooks |-> r.hooks,
                  nreg |-> IF r.rc = IB_OK THEN [n EXCEPT ![state] = @ + 1] ELSE n]

RECURSIVE wire_callbacks_from(_, _, _, _, _, _)
wire_callbacks_from(i, hs, n, m, probe, allocrc) ==
    IF i > Len(StateOrder) THEN [rc |-> IB_OK, hooks |-> hs, nreg |-> n]
    ELSE LET state == StateOrder[i]
             r == wire_state(hs, n, m, state, probe[state], allocrc[state])
         IN  IF r.rc # IB_OK /\ r.rc # IB_ENOENT THEN r
             ELSE wire_callbacks_from(i + 1, r.hooks, r.nreg, m, probe, allocrc)

\* The whole wiring pass.  mmrc is the outcome of fetching the main memory
\* manager and allocating the callback data; levs the log-event callbacks.
modlua_module_load_wire_callbacks(hs, n, levs, m, mmrc, levprobe, probe, allocrc) ==
    IF mmrc # IB_OK
    THEN [rc |-> mmrc, hooks |-> hs, nreg |-> n, logevent_hooks |-> levs]
    ELSE LET r == wire_callbacks_from(1, hs, n, m, probe, allocrc)
         IN  [rc |-> r.rc, hooks |-> r.hooks, nreg |-> r.nreg,
              logevent_hooks |-> IF levprobe = IB_OK THEN Append(levs, m) ELSE levs]

(***************************************************************************)
(* PatternMatchEngine (the eudoxus_operators module).                      *)
(***************************************************************************)
MaxLen == 2        \* bytes in one enumerated input chunk
MaxData == 2       \* automaton execution states created for streaming

Txs == {"tx1", "tx2"}
Captures == {"cap1"}
NullCapture == "NULL"
NullHash == [exists |-> FALSE, entries |-> <<>>]
NoItem == <<"no item">>
NoEntry == 0

Alphabet == {"G", "E", "T", "/"}

RECURSIVE SeqsUpTo(_)
SeqsUpTo(n) ==
    IF n = 0 THEN {<<>>}
    ELSE LET shorter == SeqsUpTo(n - 1)
         IN  shorter \cup {Append(w, c) : w \in {v \in shorter : Len(v) = n - 1}, c \in Alphabet}

\* Inputs named by the documentation of the operators.
SampleGE == <<"G", "E">>
SampleTSpSlash == <<"T", " ", "/">>
SampleGET == <<"G", "E", "T">>
SampleGETSpSlash == <<"G", "E", "T", " ", "/">>

StreamInputs == SeqsUpTo(MaxLen) \cup {SampleGE, SampleTSpSlash, SampleGET}

\* ib_field_t: type, value and what ib_field_value() returns for it.
BytestrFields(inputs) ==
    {[type |-> "IB_FTYPE_BYTESTR", value |-> v, valrc |-> IB_OK] : v \in inputs}
OtherFields ==
    { [type |-> "IB_FTYPE_NULSTR", value |-> SampleGET, valrc |-> IB_OK],
      [type |-> "IB_FTYPE_NULSTR", value |-> <<"/">>, valrc |-> IB_EUNKNOWN],
      [type |-> "IB_FTYPE_BYTESTR", value |-> <<"G">>, valrc |-> IB_EUNKNOWN],
      [type |-> "IB_FTYPE_LIST", value |-> <<>>, valrc |-> IB_OK],
      [type |-> "IB_FTYPE_NUM", value |-> <<>>, valrc |-> IB_OK] }

\* Operator instances (ee_operator_data_t): unique id and automaton.
Ops == {"op1", "op2"}
eudoxus_of(op) ==
    CASE op = "op1" -> "GET"
      [] op = "op2" -> "GE_GET"
      [] op = "op4" -> "GE_GET"
      [] OTHER -> "G_GE_GET"

\* A second instance created from the pattern of op2: its own id, the same
\* automaton.  Every instance a streaming rule may run has a key in the store.
StreamOps == Ops \cup {"op4"}

\* The one-shot operators also run an instance whose automaton has three
\* nested words.
OneShotOps == Ops \cup {"op3"}

(***************************************************************************)
(* The automaton library (ironautomata).  An automaton is a trie over its  *)
(* words; a node is the word read so far; a node that is a word has that   *)
(* word as its output.                                                     *)
(***************************************************************************)
Words(eudoxus) ==
    CASE eudoxus = "GET" -> {SampleGET}
      [] eudoxus = "GE_GET" -> {SampleGE, SampleGET}
      [] OTHER -> {<<"G">>, SampleGE, SampleGET}

Nodes(eudoxus) ==
    UNION {{SubSeq(w, 1, n) : n \in 0..Len(w)} : w \in Words(eudoxus)}

\* Values a read of an uninitialised uint32_t of a pool allocation may yield.
Uninit32 == {0, 7}

\* match_len of an ee_callback_data_t that was allocated and never assigned.
IndeterminateLen == -1

(***************************************************************************)
(* ee_first_match_callback: cb is the ee_callback_data_t, output the       *)
(* automaton's output for the node, caps the capture collections, garbage  *)
(* what reading a never-assigned match_len yields.                         *)
(***************************************************************************)
\* The callback from the assignment of match_len on: record the match.
\* Recording a match with the capture one byte short of the output.
record_first_match_short(cb, output, caps, fault) ==
    LET cb1 == [cb EXCEPT !.match_len = Len(output)]
    IN  IF cb.capture # NullCapture
        THEN [cmd |-> "IA_EUDOXUS_CMD_STOP", cb |-> cb1,
              caps |-> [caps EXCEPT ![cb.capture] = SubSeq(output, 1, Len(output) - 1)]]
        ELSE [cmd |-> "IA_EUDOXUS_CMD_STOP", cb |-> cb1, caps |-> caps]

record_first_match(cb, output, caps, fault) ==
    LET cb1 == [cb EXCEPT !.match_len = Len(output)]
    IN  IF cb.capture # NullCapture
        THEN IF fault = "capture_clear"
             THEN [cmd |-> "IA_EUDOXUS_CMD_ERROR", cb |-> cb1, caps |-> caps]
             ELSE IF fault \in {"bytestr_dup", "field_create", "capture_set_item"}
             THEN [cmd |-> "IA_EUDOXUS_CMD_ERROR", cb |-> cb1,
                   caps |-> [caps EXCEPT ![cb.capture] = NoItem]]
             ELSE [cmd |-> "IA_EUDOXUS_CMD_STOP", cb |-> cb1,
                   caps |-> [caps EXCEPT ![cb.capture] = SubSeq(output, 1, Len(output))]]
        ELSE [cmd |-> "IA_EUDOXUS_CMD_STOP", cb |-> cb1, caps |-> caps]

\* A callback that records every match and never skips one.
ee_first_match_callback_always_record(cb, output, caps, fault, garbage) ==
    record_first_match(cb, output, caps, fault)

ee_first_match_callback(cb, output, caps, fault, garbage) ==
    LET match_len == IF cb.match_len = IndeterminateLen THEN garbage ELSE cb.match_len
    IN  IF match_len > 0
        THEN [cmd |-> "IA_EUDOXUS_CMD_CONTINUE", cb |-> [cb EXCEPT !.match_len = 0],
              caps |-> caps]
        ELSE record_first_match(cb, output, caps, fault)

(***************************************************************************)
(* ia_eudoxus_execute on the state at `node` with `rem` still to read.     *)
(* Every byte moves to the child node or ends the automaton; entering a    *)
(* node with an output calls the callback, whose command stops, continues  *)
(* or fails the execution.                                                 *)
(***************************************************************************)
RECURSIVE ia_eudoxus_execute(_, _, _, _, _, _, _)
ia_eudoxus_execute(eudoxus, node, rem, cb, caps, fault, garbage) ==
    IF rem = <<>>
    THEN [ia_rc |-> "IA_EUDOXUS_OK", node |-> node, rem |-> rem, cb |-> cb, caps |-> caps]
    ELSE LET next == Append(node, Head(rem))
         IN  IF next \notin Nodes(eudoxus)
             THEN [ia_rc |-> "IA_EUDOXUS_END", node |-> node, rem |-> rem,
                   cb |-> cb, caps |-> caps]
             ELSE IF next \in Words(eudoxus)
             THEN LET c == ee_first_match_callback(cb, next, caps, fault, garbage)
                  IN  CASE c.cmd = "IA_EUDOXUS_CMD_STOP" ->
                             [ia_rc |-> "IA_EUDOXUS_STOP", node |-> next, rem |-> Tail(rem),
                              cb |-> c.cb, caps |-> c.caps]
                        [] c.cmd = "IA_EUDOXUS_CMD_ERROR" ->
                             [ia_rc |-> "IA_EUDOXUS_ERROR", node |-> next, rem |-> Tail(rem),
                              cb |-> c.cb, caps |-> c.caps]
                        [] OTHER ->
                             ia_eudoxus_execute(eudoxus, next, Tail(rem), c.cb, c.caps, fault,
                                                garbage)
             ELSE ia_eudoxus_execute(eudoxus, next, Tail(rem), cb, caps, fault, garbage)

(***************************************************************************)
(* ee_operator_execute_common.  data is the ee_tx_data_t (its callback     *)
(* data inlined), input_len the length of the field's value.               *)
(***************************************************************************)
RECURSIVE execute_loop(_, _, _, _, _, _, _, _)
execute_loop(eudoxus, data, input, input_len, full_match, caps, fault, garbage) ==
    LET x == ia_eudoxus_execute(eudoxus, data.node, input, data.ee_cbdata, caps, fault,
                                garbage)
        d1 == [data EXCEPT !.node = x.node, !.ee_cbdata = x.cb]
    IN  IF x.ia_rc = "IA_EUDOXUS_STOP"
        THEN IF full_match
             THEN IF x.cb.match_len = input_len
                  THEN [rc |-> IB_OK, result |-> 1, data |-> d1, caps |-> x.caps]
                  ELSE execute_loop(eudoxus, d1, x.rem, input_len, full_match, x.caps, fault,
                                    garbage)
             ELSE [rc |-> IB_OK, result |-> 1, data |-> d1, caps |-> x.caps]
        ELSE IF x.ia_rc = "IA_EUDOXUS_END"
        THEN [rc |-> IB_OK, result |-> 0,
              data |-> [d1 EXCEPT !.end_of_automata = TRUE], caps |-> x.caps]
        ELSE IF x.ia_rc # "IA_EUDOXUS_OK"
        THEN [rc |-> IB_EUNKNOWN, result |-> 0, data |-> d1, caps |-> x.caps]
        ELSE [rc |-> IB_OK, result |-> 0, data |-> d1, caps |-> x.caps]

\* ee_operator_execute_common without the end_of_automata test.
ee_operator_execute_common_no_latch(eudoxus, data, field, full_match, caps, fault, garbage) ==
    IF field.type \in {"IB_FTYPE_NULSTR", "IB_FTYPE_BYTESTR"}
    THEN IF field.valrc # IB_OK
         THEN [rc |-> field.valrc, result |-> 0, data |-> data, caps |-> caps]
         ELSE execute_loop(eudoxus, data, field.value, Len(field.value),
                           full_match, caps, fault, garbage)
    ELSE IF field.type = "IB_FTYPE_LIST"
    THEN [rc |-> IB_ENOTIMPL, result |-> 0, data |-> data, caps |-> caps]
    ELSE [rc |-> IB_EINVAL, result |-> 0, data |-> data, caps |-> caps]

ee_operator_execute_common(eudoxus, data, field, full_match, caps, fault, garbage) ==
    IF field.type \in {"IB_FTYPE_NULSTR", "IB_FTYPE_BYTESTR"}
    THEN IF field.valrc # IB_OK
         THEN [rc |-> field.valrc, result |-> 0, data |-> data, caps |-> caps]
         ELSE IF data.end_of_automata
         THEN [rc |-> IB_OK, result |-> 0, data |-> data, caps |-> caps]
         ELSE execute_loop(eudoxus, data, field.value, Len(field.value),
                           full_match, caps, fault, garbage)
    ELSE IF field.type = "IB_FTYPE_LIST"
    THEN [rc |-> IB_ENOTIMPL, result |-> 0, data |-> data, caps |-> caps]
    ELSE [rc |-> IB_EINVAL, result |-> 0, data |-> data, caps |-> caps]

(***************************************************************************)
(* ee_match_operator_execute_nonstream: the one-shot operators.  The       *)
(* execution state and callback data live for this call only; match_len   *)
(* is initialised to 0, so no read of it is indeterminate.                 *)
(***************************************************************************)
\* The one-shot operator returning a failure of the common code at once,
\* before ia_eudoxus_destroy_state.
ee_match_operator_execute_nonstream_leak(op, field, capture, full_match, caps, fault) ==
    LET local_data == [node |-> <<>>,
                       ee_cbdata |-> [capture |-> capture, match_len |-> 0],
                       end_of_automata |-> FALSE]
    IN  IF fault = "create_state"
        THEN [rc |-> IB_EINVAL, result |-> 0, caps |-> caps, created |-> 0, destroyed |-> 0]
        ELSE LET r == ee_operator_execute_common(eudoxus_of(op), local_data, field,
                                                 full_match, caps, fault, 0)
             IN  [rc |-> r.rc, result |-> r.result, caps |-> r.caps,
                  created |-> 1, destroyed |-> IF r.rc = IB_OK THEN 1 ELSE 0]

ee_match_operator_execute_nonstream(op, field, capture, full_match, caps, fault) ==
    LET local_data == [node |-> <<>>,
                       ee_cbdata |-> [capture |-> capture, match_len |-> 0],
                       end_of_automata |-> FALSE]
    IN  IF fault = "create_state"
        THEN [rc |-> IB_EINVAL, result |-> 0, caps |-> caps, created |-> 0, destroyed |-> 0]
        ELSE LET r == ee_operator_execute_common(eudoxus_of(op), local_data, field,
                                                 full_match, caps, fault, 0)
             IN  [rc |-> r.rc, result |-> r.result, caps |-> r.caps,
                  created |-> 1, destroyed |-> 1]

\* The ee operator demanding a match of the whole input.
ee_operator_execute_full(op, field, capture, caps, fault) ==
    ee_match_operator_execute_nonstream(op, field, capture, TRUE, caps, fault)

ee_operator_execute(op, field, capture, caps, fault) ==
    ee_match_operator_execute_nonstream(op, field, capture, FALSE, caps, fault)

\* The ee_match operator accepting a match shorter than the input.
ee_match_operator_execute_partial(op, field, capture, caps, fault) ==
    ee_match_operator_execute_nonstream(op, field, capture, FALSE, caps, fault)

ee_match_operator_execute(op, field, capture, caps, fault) ==
    ee_match_operator_execute_nonstream(op, field, capture, TRUE, caps, fault)

(***************************************************************************)
(* The transaction's module-keyed store.  hash is tx's module data for     *)
(* this module: NullHash, or the entries from operator id to the index of *)
(* stored ee_tx_data_t in ee_data (NoEntry when the id has no entry).      *)
(***************************************************************************)
get_or_create_operator_data_hash(hash, fault) ==
    IF hash # NullHash THEN [rc |-> IB_OK, hash |-> hash, stored |-> hash]
    ELSE IF fault \in {"hash_create", "set_module_data"}
    THEN [rc |-> IB_EALLOC, hash |-> NullHash, stored |-> NullHash]
    ELSE LET h == [exists |-> TRUE, entries |-> [o \in StreamOps |-> NoEntry]]
         IN  [rc |-> IB_OK, hash |-> h, stored |-> h]

\* get_ee_tx_data looking the operator id up in every transaction's store.
get_ee_tx_data_shared(hash, op, fault) ==
    LET g == get_or_create_operator_data_hash(hash, fault)
        others == {u \in Txs : module_data[u].exists /\ module_data[u].entries[op] # NoEntry}
    IN  IF g.rc # IB_OK THEN [rc |-> g.rc, stored |-> g.stored, tx_data |-> NoEntry]
        ELSE IF g.hash.entries[op] # NoEntry
        THEN [rc |-> IB_OK, stored |-> g.stored, tx_data |-> g.hash.entries[op]]
        ELSE IF others # {}
        THEN [rc |-> IB_OK, stored |-> g.stored,
              tx_data |-> module_data[CHOOSE u \in others : TRUE].entries[op]]
        ELSE [rc |-> IB_ENOENT, stored |-> g.stored, tx_data |-> NoEntry]

\* get_ee_tx_data keyed by the automaton of the instance, not by its id.
get_ee_tx_data_by_automaton(hash, op, fault) ==
    LET g == get_or_create_operator_data_hash(hash, fault)
        same == {o \in StreamOps : eudoxus_of(o) = eudoxus_of(op)
                                     /\ g.hash # NullHash /\ g.hash.entries[o] # NoEntry}
    IN  IF g.rc # IB_OK THEN [rc |-> g.rc, stored |-> g.stored, tx_data |-> NoEntry]
        ELSE IF same = {}
        THEN [rc |-> IB_ENOENT, stored |-> g.stored, tx_data |-> NoEntry]
        ELSE [rc |-> IB_OK, stored |-> g.stored,
              tx_data |-> g.hash.entries[CHOOSE o \in same : TRUE]]

get_ee_tx_data(hash, op, fault) ==
    LET g == get_or_create_operator_data_hash(hash, fault)
    IN  IF g.rc # IB_OK THEN [rc |-> g.rc, stored |-> g.stored, tx_data |-> NoEntry]
        ELSE IF g.hash.entries[op] = NoEntry
        THEN [rc |-> IB_ENOENT, stored |-> g.stored, tx_data |-> NoEntry]
        ELSE [rc |-> IB_OK, stored |-> g.stored, tx_data |-> g.hash.entries[op]]

set_ee_tx_data(hash, op, tx_data, fault) ==
    LET g == get_or_create_operator_data_hash(hash, fault)
    IN  IF g.rc # IB_OK THEN [rc |-> g.rc, stored |-> g.stored]
        ELSE IF fault = "hash_set" THEN [rc |-> IB_EALLOC, stored |-> g.stored]
        ELSE [rc |-> IB_OK, stored |-> [g.hash EXCEPT !.entries[op] = tx_data]]

(***************************************************************************)
(* ee_operator_execute_stream.  Returns the call's status and result, the  *)
(* transaction's store and the module's ee_tx_data_t records after it.     *)
(* garbage is what a read of a never-assigned match_len yields.            *)
(***************************************************************************)
new_tx_data(tx, op, capture) ==
    [tx |-> tx, id |-> op, eudoxus_state |-> "live", node |-> <<>>,
     ee_cbdata |-> [capture |-> capture, match_len |-> IndeterminateLen],
     end_of_automata |-> FALSE, destroys |-> 0]

\* A streaming call that stores the new ee_tx_data_t before the automaton
\* state is created.
ee_operator_execute_stream_store_first(tx, op, field, capture, hash, datas, caps, fault, garbage) ==
    LET g == get_ee_tx_data(hash, op, fault)
        id == Len(datas) + 1
        st == set_ee_tx_data(g.stored, op, id, fault)
    IN  IF g.rc = IB_ENOENT
        THEN IF fault = "create_state"
             THEN [rc |-> IB_EINVAL, result |-> 0, stored |-> st.stored,
                   datas |-> Append(datas, new_tx_data(tx, op, capture)), caps |-> caps]
             ELSE LET r == ee_operator_execute_common(
                               eudoxus_of(op), new_tx_data(tx, op, capture),
                               field, FALSE, caps, fault, garbage)
                  IN  [rc |-> r.rc, result |-> r.result, stored |-> st.stored,
                       datas |-> Append(datas, r.data), caps |-> r.caps]
        ELSE IF g.rc # IB_OK
        THEN [rc |-> g.rc, result |-> 0, stored |-> g.stored,
              datas |-> datas, caps |-> caps]
        ELSE LET r == ee_operator_execute_common(
                          eudoxus_of(op), datas[g.tx_data], field, FALSE, caps, fault,
                          garbage)
             IN  [rc |-> r.rc, result |-> r.result, stored |-> g.stored,
                  datas |-> [datas EXCEPT ![g.tx_data] = r.data], caps |-> r.caps]

ee_operator_execute_stream(tx, op, field, capture, hash, datas, caps, fault, garbage) ==
    LET g == get_ee_tx_data(hash, op, fault)
    IN  IF g.rc = IB_ENOENT
        THEN IF fault = "alloc_data"
             THEN [rc |-> "SIGSEGV", result |-> 0, stored |-> g.stored,
                   datas |-> datas, caps |-> caps]
             ELSE IF fault = "alloc_cbdata"
             THEN [rc |-> IB_EALLOC, result |-> 0, stored |-> g.stored,
                   datas |-> datas, caps |-> caps]
             ELSE IF fault = "create_state"
             THEN [rc |-> IB_EINVAL, result |-> 0, stored |-> g.stored,
                   datas |-> datas, caps |-> caps]
             ELSE LET id == Len(datas) + 1
                      st == set_ee_tx_data(g.stored, op, id, fault)
                      r == ee_operator_execute_common(
                               eudoxus_of(op), new_tx_data(tx, op, capture),
                               field, FALSE, caps, fault, garbage)
                  IN  [rc |-> r.rc, result |-> r.result, stored |-> st.stored,
                       datas |-> Append(datas, r.data), caps |-> r.caps]
        ELSE IF g.rc # IB_OK
        THEN [rc |-> g.rc, result |-> 0, stored |-> g.stored,
              datas |-> datas, caps |-> caps]
        ELSE LET r == ee_operator_execute_common(
                          eudoxus_of(op), datas[g.tx_data], field, FALSE, caps, fault,
                          garbage)
             IN  [rc |-> r.rc, result |-> r.result, stored |-> g.stored,
                  datas |-> [datas EXCEPT ![g.tx_data] = r.data], caps |-> r.caps]

(***************************************************************************)
(* ee_tx_finished_handler: destroy the automaton state of every record in  *)
(* the transaction's hash.                                                 *)
(***************************************************************************)
FinishFaults == {"none", "mpool_lite_create", "hash_iterator_create"}

ee_tx_finished_handler(hash, datas, fault) ==
    IF hash = NullHash THEN [rc |-> IB_OK, datas |-> datas]
    ELSE IF fault = "mpool_lite_create" THEN [rc |-> IB_EALLOC, datas |-> datas]
    ELSE IF fault = "hash_iterator_create" THEN [rc |-> IB_EALLOC, datas |-> datas]
    ELSE [rc |-> IB_OK,
          datas |-> [i \in DOMAIN datas |->
                        IF (\E o \in StreamOps : hash.entries[o] = i) /\ datas[i].eudoxus_state # "NULL"
                        THEN [datas[i] EXCEPT !.eudoxus_state = "NULL",
                                              !.destroys = @ + 1]
                        ELSE datas[i]]]

(***************************************************************************)
(* The Lua bridge's workers and runtimes before any callback ran: the pool *)
(* has created no runtime and every worker is outside the bridge.          *)
(***************************************************************************)
Workers == {"w1", "w2", "w3"}

NoRuntime == 0

Idle == [pc |-> "idle", callback |-> "none", runtime |-> NoRuntime]

BridgeInitVars ==
    /\ lua_created = 0
    /\ lua_free = {}
    /\ lua_lost = {}
    /\ worker = [w \in Workers |-> Idle]

\* Every operator instance as ee_operator_create left it; no worker is inside
\* an operator.
NoExec == [tx |-> "none", op |-> "none", field |-> "none", data |-> NoEntry]

ee_operator_create(op) == [id |-> op, eudoxus |-> eudoxus_of(op)]

WorkInitVars ==
    /\ operator_data = [op \in OneShotOps |-> ee_operator_create(op)]
    /\ exec = [w \in Workers |-> NoExec]

\* The rule engine and the block chain before any registration.
Rules == {"r1", "r2", "r3"}

Phases == {"IB_PHASE_REQUEST_HEADER", "IB_PHASE_REQUEST"}

NoRule == [registered |-> FALSE, asked_of |-> 0, queried |-> <<>>, owners |-> {}]

NoInjection == [phase |-> "none", fns |-> <<>>, calls |-> <<>>, rules |-> <<>>]

NoHandler == "none"

NoBlock == [pre |-> <<>>, handler |-> NoHandler, post |-> <<>>,
            requested |-> FALSE, enabled |-> FALSE, trace |-> <<>>]

RuleInitVars ==
    /\ ownership_fns = <<>>
    /\ rules = [r \in Rules |-> NoRule]
    /\ default_rules = <<>>
    /\ injection_fns = [p \in Phases |-> <<>>]
    /\ injected = NoInjection
    /\ block_pre_hooks = <<>>
    /\ block_handler = NoHandler
    /\ last_handler = NoHandler
    /\ block_post_hooks = <<>>
    /\ blocked = NoBlock

NoWiring == [kind |-> "none", module |-> "none", state |-> "none", shape |-> "none",
             probe |-> [s \in States |-> IB_ENOENT], levprobe |-> IB_ENOENT,
             unknown |-> IB_ENOENT, fault |-> FALSE, rc |-> IB_OK]

NoHandled == [callback |-> "none", runtime |-> NoRuntime, contained |-> FALSE,
              checked |-> FALSE, reloaded |-> FALSE, loaded |-> FALSE, ran |-> FALSE]

PatternNames == {"methods", "agents"}

AutomataFiles == {"GET", "GE_GET"}     \* each file named after the automaton in it

NoEudoxus == "NULL"

NoInstance == [name |-> "none", eudoxus |-> NoEudoxus]

NoPatternCall == [kind |-> "none", name |-> "none", file |-> "none", fault |-> FALSE,
                  rc |-> IB_OK, instance |-> NoInstance]

DirNames == {"Foo", "Bar"}

NoDirective == [type |-> "none", cfg_cb |-> "none"]

NoDirectiveCall == [kind |-> "none", name |-> "none", type |-> "none", luatype |-> 0,
                    nparams |-> 0, block |-> FALSE, fault |-> FALSE,
                    rc |-> IB_OK, invoked |-> "none"]

NoNested == [pc |-> "none", runtime |-> NoRuntime]

NoPushed == [callback |-> "none", event |-> "none", rc |-> IB_OK, args |-> <<>>]

NoReturned == [callback |-> "none", outcome |-> "none", rc2 |-> IB_OK, rc |-> IB_OK,
               released |-> FALSE]

NoLuamod == [module |-> "none", early |-> "none", loadrc |-> IB_OK, recordrc |-> IB_OK,
             steps |-> <<>>, loaded |-> FALSE, recorded |-> FALSE, rc |-> IB_OK]

LateInitVars ==
    /\ cfg_state = "CFG_NOT_STARTED"
    /\ wiring = NoWiring
    /\ lua_loaded = {}
    /\ handled = NoHandled
    /\ eudoxus_pattern_hash = [n \in PatternNames |-> NoEudoxus]
    /\ instances = {}
    /\ pattern_call = NoPatternCall
    /\ directives = [n \in DirNames |-> NoDirective]
    /\ directive_call = NoDirectiveCall
    /\ nested = [w \in Workers |-> NoNested]
    /\ pushed = NoPushed
    /\ returned = NoReturned
    /\ luamod = NoLuamod

ExtInitVars == BridgeInitVars /\ WorkInitVars /\ RuleInitVars /\ LateInitVars

(***************************************************************************)
(* State of the eudoxus_operators module before any operator call: every   *)
(* transaction is open and has no module data yet.                         *)
(***************************************************************************)
NoCall == [kind |-> "none", tx |-> "none", op |-> "none",
           field |-> [type |-> "none", value |-> <<>>, valrc |-> IB_OK],
           capture |-> NullCapture, fault |-> "none", rc |-> IB_OK, result |-> 0,
           created |-> 0, destroyed |-> 0]

EEInitVars ==
    /\ txs = [t \in Txs |-> "active"]
    /\ module_data = [t \in Txs |-> NullHash]
    /\ ee_data = <<>>
    /\ captures = [c \in Captures |-> NoItem]
    /\ last = NoCall
    /\ crashed = FALSE

(***************************************************************************)
(* Actions of the hook registry.                                           *)
(***************************************************************************)
HooksInit ==
    /\ hooks = [s \in States |-> <<>>]
    /\ nreg = [s \in States |-> 0]
    /\ logevent_hooks = <<>>
    /\ wired = {}
    /\ ran = [m \in Modules |-> 0]
    /\ delivery = NoDelivery
    /\ EEInitVars
    /\ ExtInitVars

\* A native module registers a hook with the registration function of `shape`.
RegisterHook(state, shape, m) ==
    /\ Len(hooks[state]) < MaxHooks
    /\ \E allocrc \in {IB_OK, IB_EALLOC} :
          LET r == hook_register(hooks, state, shape,
                                 [module |-> m, callback |-> "native",
                                  seq |-> nreg[state] + 1],
                                 allocrc)
          IN  /\ hooks' = r.hooks
              /\ nreg' = IF r.rc = IB_OK THEN [nreg EXCEPT ![state] = @ + 1] ELSE nreg
    /\ UNCHANGED <<logevent_hooks, wired, ran, delivery>>
    /\ UNCHANGED <<eevars, extvars>>

\* modlua_module_load_wire_callbacks for Lua module m.
WireLuaModule(m) ==
    /\ m \notin wired
    /\ \A s \in States : Len(hooks[s]) < MaxHooks
    /\ \E mmrc \in {IB_OK, IB_EOTHER, IB_EALLOC},
          levprobe \in {IB_OK, IB_ENOENT, IB_EINVAL},
          probe \in [States -> {IB_OK, IB_ENOENT, IB_EINVAL}],
          allocrc \in [States -> {IB_OK, IB_EALLOC}] :
          LET r == modlua_module_load_wire_callbacks(hooks, nreg, logevent_hooks, m,
                                                     mmrc, levprobe, probe, allocrc)
          IN  /\ hooks' = r.hooks
              /\ nreg' = r.nreg
              /\ logevent_hooks' = r.logevent_hooks
    /\ wired' = wired \cup {m}
    /\ UNCHANGED <<ran, delivery>>
    /\ UNCHANGED <<eevars, extvars>>

\* The server notifies the engine of `state`.
NotifyState(state) ==
    /\ \A m \in Modules : ran[m] < MaxRuns
    /\ \E rcs \in [1..Len(hooks[state]) -> {IB_OK, IB_EOTHER}] :
          LET r == state_notify(hooks[state], rcs, 1)
          IN  /\ delivery' = [state |-> state, tx |-> "none", rcs |-> rcs,
                              calls |-> r.calls, rc |-> r.rc]
              /\ ran' = [m \in Modules |-> ran[m] + CompletedRuns(r.calls, rcs, m, 1)]
    /\ UNCHANGED <<hooks, nreg, logevent_hooks, wired>>
    /\ UNCHANGED <<eevars, extvars>>

HooksNext ==
    \/ \E s \in States, sh \in {ib_state_hook_type(t) : t \in States}, m \in NativeModules :
          RegisterHook(s, sh, m)
    \/ \E m \in LuaModules : WireLuaModule(m)
    \/ \E s \in States : NotifyState(s)

SpecHooks == HooksInit /\ [][HooksNext]_vars

(***************************************************************************)
(* Properties of hook dispatch (under SpecHooks).                          *)
(***************************************************************************)
\* A step that delivers a state notification.
IsDelivery == delivery' # delivery \/ ran' # ran

\* Position of the first hook of the delivery that returns a failure, 0 if none.
FirstFailure(rcs) ==
    IF \E k \in 1..Len(rcs) : rcs[k] # IB_OK
    THEN CHOOSE k \in 1..Len(rcs) :
             rcs[k] # IB_OK /\ \A j \in 1..(k - 1) : rcs[j] = IB_OK
    ELSE 0

NumEntries(hs, m) == Cardinality({i \in 1..Len(hs) : hs[i].module = m})

\* C1: one delivery of a state invokes the hooks registered for it in their
\* registration order: the calls are a prefix of the state's list, and an
\* earlier registration (smaller stamp) is always called before a later one.
C1_DispatchInRegistrationOrder ==
    delivery.state # "none" =>
        /\ Len(delivery.calls) <= Len(hooks[delivery.state])
        /\ delivery.calls = SubSeq(hooks[delivery.state], 1, Len(delivery.calls))
        /\ \A a \in 1..Len(delivery.calls), b \in 1..Len(delivery.calls) :
              a < b => delivery.calls[a].seq < delivery.calls[b].seq

C1_Witness ==
    /\ delivery.state # "none"
    /\ delivery.rc = IB_OK
    /\ Len(delivery.calls) = 3
    /\ delivery.calls[1].module # delivery.calls[2].module

\* C2: when the hook at position k fails, the calls of the delivery are exactly
\* positions 1..k, the notification returns that failure, and the effects of
\* positions 1..k-1 stay applied.
C2_FailureAbortsRemainingHooks ==
    [][IsDelivery =>
         LET d == delivery'
             hs == hooks[d.state]
             k == FirstFailure(d.rcs)
         IN  k > 0 =>
                /\ d.calls = SubSeq(hs, 1, k)
                /\ d.rc = d.rcs[k]
                /\ d.rc # IB_OK
                /\ \A m \in Modules :
                      ran'[m] = ran[m] + NumEntries(SubSeq(hs, 1, k - 1), m)]_vars

C2_Witness ==
    /\ delivery.state # "none"
    /\ delivery.rc # IB_OK
    /\ Len(delivery.calls) = 2
    /\ Len(hooks[delivery.state]) = 3
    /\ ran[delivery.calls[1].module] > 0

\* C3: in a delivery in which no hook fails every hook registered for the state
\* is called exactly once; a Lua module has at most one hook per state, so its
\* handler runs exactly once in such a delivery.
C3_EveryHookExactlyOnce ==
    [][/\ \A m \in LuaModules, s \in States : NumEntries(hooks'[s], m) <= 1
       /\ IsDelivery =>
            LET d == delivery'
            IN  FirstFailure(d.rcs) = 0 =>
                   /\ d.calls = hooks[d.state]
                   /\ d.rc = IB_OK
                   /\ \A m \in Modules :
                         ran'[m] = ran[m] + NumEntries(hooks[d.state], m)]_vars

C3_Witness ==
    /\ delivery.state # "none"
    /\ delivery.rc = IB_OK
    /\ delivery.calls = hooks[delivery.state]
    /\ \E i \in 1..Len(delivery.calls) : delivery.calls[i].module \in LuaModules
    /\ \E i \in 1..Len(delivery.calls) : delivery.calls[i].module \in NativeModules

(***************************************************************************)
(* Actions of the eudoxus_operators module.                                *)
(***************************************************************************)
\* ee_module_init registers the tx_finished hook.
ee_module_init(hs, n) ==
    hook_register(hs, "tx_finished_state", "IB_STATE_HOOK_TX",
                  [module |-> "ee", callback |-> "ee_tx_finished_handler", seq |-> n + 1],
                  IB_OK)

\* Another module's tx_finished hook, registered when `present`.
other_module_init(hs, n, present) ==
    IF present
    THEN hook_register(hs, "tx_finished_state", "IB_STATE_HOOK_TX",
                       [module |-> "modA", callback |-> "native", seq |-> n + 1], IB_OK)
    ELSE [rc |-> IB_OK, hooks |-> hs]

\* Engine after module initialisation: the ee module alone (Init), or with
\* another module's tx_finished hook registered before or after it.
EngineInit(before, after) ==
    /\ LET h0 == [s \in States |-> <<>>]
           h1 == other_module_init(h0, 0, before).hooks
           h2 == ee_module_init(h1, Len(h1["tx_finished_state"])).hooks
           h3 == other_module_init(h2, Len(h2["tx_finished_state"]), after).hooks
       IN  /\ hooks = h3
           /\ nreg = [s \in States |-> Len(h3[s])]
    /\ logevent_hooks = <<>>
    /\ wired = {}
    /\ ran = [m \in Modules |-> 0]
    /\ delivery = NoDelivery
    /\ EEInitVars
    /\ ExtInitVars

Init == EngineInit(FALSE, FALSE)

HasEntry(t, op) == module_data[t].exists /\ module_data[t].entries[op] # NoEntry

\* A rule runs the streaming ee operator `op` on one chunk of transaction t.
StreamFeed(t, op, field, capture, fault) ==
    /\ ~crashed
    /\ last = NoCall
    /\ txs[t] = "active"
    /\ HasEntry(t, op) \/ Len(ee_data) < MaxData
    /\ \E garbage \in Uninit32 :
          LET r == ee_operator_execute_stream(t, op, field, capture, module_data[t],
                                              ee_data, captures, fault, garbage)
          IN  /\ module_data' = [module_data EXCEPT ![t] = r.stored]
              /\ ee_data' = r.datas
              /\ captures' = r.caps
              /\ crashed' = (r.rc = "SIGSEGV")
              /\ last' = [kind |-> "ee_stream", tx |-> t, op |-> op, field |-> field,
                          capture |-> capture, fault |-> fault, rc |-> r.rc,
                          result |-> r.result, created |-> 0, destroyed |-> 0]
    /\ UNCHANGED <<txs, hookvars, extvars>>

\* A rule runs the one-shot ee (full_match FALSE) or ee_match (TRUE) operator.
OneShot(t, op, field, capture, full_match, fault) ==
    /\ ~crashed
    /\ last = NoCall
    /\ txs[t] = "active"
    /\ LET r == IF full_match
                THEN ee_match_operator_execute(op, field, capture, captures, fault)
                ELSE ee_operator_execute(op, field, capture, captures, fault)
       IN  /\ captures' = r.caps
           /\ last' = [kind |-> IF full_match THEN "ee_match" ELSE "ee", tx |-> t,
                       op |-> op, field |-> field, capture |-> capture, fault |-> fault,
                       rc |-> r.rc, result |-> r.result,
                       created |-> r.created, destroyed |-> r.destroyed]
    /\ UNCHANGED <<txs, module_data, ee_data, crashed, hookvars, extvars>>

\* The rule engine takes the status and result of the call that returned.
ResultTaken ==
    /\ last # NoCall
    /\ last' = NoCall
    /\ UNCHANGED <<txs, module_data, ee_data, captures, crashed, hookvars, extvars>>

\* The server notifies tx_finished_state for t; the transaction ends with it.
TxFinished(t) ==
    /\ ~crashed
    /\ last = NoCall
    /\ txs[t] = "active"
    /\ \E fault \in FinishFaults, otherrc \in {IB_OK, IB_EOTHER} :
          LET hs == hooks["tx_finished_state"]
              h == ee_tx_finished_handler(module_data[t], ee_data, fault)
              rcs == [i \in 1..Len(hs) |-> IF hs[i].module = "ee" THEN h.rc ELSE otherrc]
              r == state_notify(hs, rcs, 1)
          IN  /\ delivery' = [state |-> "tx_finished_state", tx |-> t, rcs |-> rcs,
                              calls |-> r.calls, rc |-> r.rc]
              /\ ee_data' = IF \E i \in 1..Len(r.calls) : r.calls[i].module = "ee"
                            THEN h.datas ELSE ee_data
              /\ ran' = [m \in Modules |-> ran[m] + CompletedRuns(r.calls, rcs, m, 1)]
    /\ txs' = [txs EXCEPT ![t] = "finished"]
    /\ UNCHANGED <<hooks, nreg, logevent_hooks, wired, module_data, captures, last, crashed,
                   extvars>>

(***************************************************************************)
(* Spec: streaming feeds of one operator instance in one transaction, with *)
(* and without a capture target, over every enumerated chunk.              *)
(***************************************************************************)
StreamFields == BytestrFields(StreamInputs) \cup OtherFields
StreamFaults == {"none", "capture_clear", "bytestr_dup"}

Next ==
    \/ \E op \in Ops, f \in StreamFields, c \in Captures \cup {NullCapture},
          fault \in StreamFaults :
          /\ ee_data = <<>> \/ HasEntry("tx1", op)
          /\ StreamFeed("tx1", op, f, c, fault)
    \/ ResultTaken

Spec == Init /\ [][Next]_vars

(***************************************************************************)
(* SpecLifecycle: the per-transaction automaton states from their creation *)
(* to tx_finished, for two transactions, with the failures of the store    *)
(* and of the finish handler.                                              *)
(***************************************************************************)
LifecycleFields ==
    BytestrFields({<<"G">>})
        \cup {[type |-> "IB_FTYPE_LIST", value |-> <<>>, valrc |-> IB_OK]}
LifecycleFaults == {"none", "hash_create", "alloc_data", "alloc_cbdata",
                    "create_state", "hash_set"}

InitLifecycle == \E before \in BOOLEAN : EngineInit(before, FALSE)

NextLifecycle ==
    \/ \E t \in Txs, op \in Ops, f \in LifecycleFields, fault \in LifecycleFaults :
          StreamFeed(t, op, f, NullCapture, fault)
    \/ \E t \in Txs : TxFinished(t)
    \/ ResultTaken

SpecLifecycle == InitLifecycle /\ [][NextLifecycle]_vars

(***************************************************************************)
(* SpecOneShot: the one-shot operators ee and ee_match on every enumerated *)
(* input.                                                                  *)
(***************************************************************************)
OneShotFields == BytestrFields(StreamInputs \cup {SampleGETSpSlash}) \cup OtherFields
OneShotFaults == {"none", "create_state", "capture_clear", "bytestr_dup",
                  "field_create", "capture_set_item"}

NextOneShot ==
    \/ \E t \in Txs, op \in OneShotOps, f \in OneShotFields,
          c \in Captures \cup {NullCapture}, full \in BOOLEAN, fault \in OneShotFaults :
          OneShot(t, op, f, c, full, fault)
    \/ ResultTaken

SpecOneShot == Init /\ [][NextOneShot]_vars

(***************************************************************************)
(* Properties of the streaming operator (under Spec).                      *)
(***************************************************************************)
Bytestr(v) == [type |-> "IB_FTYPE_BYTESTR", value |-> v, valrc |-> IB_OK]

\* A step in which a streaming call runs and returns.
IsFeed == last = NoCall /\ last' # NoCall /\ last'.kind = "ee_stream"

EntryOf(t, op) == IF HasEntry(t, op) THEN module_data[t].entries[op] ELSE NoEntry

\* C4: the first streaming call of an (instance, transaction) pair creates and
\* stores the execution state, later calls feed the same state, and "GE" then
\* "T /" against the automaton of "GET" give result 0 and then result 1.
C4_SplitPatternMatched ==
    [][IsFeed /\ last'.fault = "none" =>
         LET t == last'.tx
             op == last'.op
             e == EntryOf(t, op)
         IN  /\ e = NoEntry =>
                   /\ Len(ee_data') = Len(ee_data) + 1
                   /\ module_data'[t].entries[op] = Len(ee_data')
             /\ e # NoEntry =>
                   /\ Len(ee_data') = Len(ee_data)
                   /\ module_data'[t] = module_data[t]
                   /\ \A i \in DOMAIN ee_data : i # e => ee_data'[i] = ee_data[i]
             /\ (e = NoEntry /\ op = "op1" /\ last'.field = Bytestr(SampleGE)) =>
                   /\ last'.rc = IB_OK
                   /\ last'.result = 0
                   /\ ee_data'[Len(ee_data')].node = SampleGE
             /\ (/\ e # NoEntry
                 /\ op = "op1"
                 /\ ee_data[e].node = SampleGE
                 /\ ~ee_data[e].end_of_automata
                 /\ last'.field = Bytestr(SampleTSpSlash)) =>
                   /\ last'.rc = IB_OK
                   /\ last'.result = 1]_vars

\* C5 as stated: after end-of-automata was latched for a pair, every later
\* feed of the pair, whatever is fed, returns IB_OK with result 0 and does not
\* execute the automaton.
C5_LatchedFeedNeverFails ==
    [][IsFeed =>
         LET e == EntryOf(last'.tx, last'.op)
         IN  (e # NoEntry /\ ee_data[e].end_of_automata) =>
                /\ last'.rc = IB_OK
                /\ last'.result = 0
                /\ ee_data' = ee_data]_vars

\* Status of ee_operator_execute_common for a field it does not scan.
FieldStatus(field) ==
    IF field.type \in {"IB_FTYPE_NULSTR", "IB_FTYPE_BYTESTR"} THEN field.valrc
    ELSE IF field.type = "IB_FTYPE_LIST" THEN IB_ENOTIMPL
    ELSE IB_EINVAL

\* C5 amended: the flag, once set, stays set; a later feed of the pair never
\* executes the automaton (state and captures untouched) and returns result 0;
\* its status is IB_OK for a readable string field and the field's own error
\* (not-implemented for a list, invalid for another type, the accessor's
\* error) otherwise.
C5_LatchedFeedIsNoOp ==
    [][/\ \A i \in DOMAIN ee_data :
             ee_data[i].end_of_automata => ee_data'[i].end_of_automata
       /\ IsFeed =>
             LET e == EntryOf(last'.tx, last'.op)
             IN  (e # NoEntry /\ ee_data[e].end_of_automata) =>
                    /\ last'.rc = FieldStatus(last'.field)
                    /\ last'.result = 0
                    /\ ee_data' = ee_data
                    /\ captures' = captures]_vars

\* A feed of "GET" that left the cursor at the root: the flag was set before it.
C5_Witness ==
    /\ last.kind = "ee_stream"
    /\ last.field = Bytestr(SampleGET)
    /\ last.rc = IB_OK
    /\ last.result = 0
    /\ HasEntry(last.tx, last.op)
    /\ ee_data[EntryOf(last.tx, last.op)].end_of_automata
    /\ ee_data[EntryOf(last.tx, last.op)].node = <<>>

(***************************************************************************)
(* Properties of the automaton states' lifecycle (under SpecLifecycle).    *)
(***************************************************************************)
\* The ee handler ran in t's tx_finished delivery and returned IB_OK.
HandlerCompleted(t) ==
    /\ txs[t] = "finished"
    /\ \E i \in 1..Len(delivery.calls) :
          delivery.calls[i].module = "ee" /\ delivery.rcs[i] = IB_OK
    /\ delivery.tx = t

\* C6: after the tx_finished handler completed for t, every stored state of t
\* was destroyed exactly once, its handle is null, and no automaton state of t
\* is left live.
C6_NoOutstandingHandles ==
    \A t \in Txs :
        HandlerCompleted(t) =>
            /\ \A op \in Ops :
                  HasEntry(t, op) =>
                      /\ ee_data[EntryOf(t, op)].eudoxus_state = "NULL"
                      /\ ee_data[EntryOf(t, op)].destroys = 1
            /\ \A i \in DOMAIN ee_data :
                  ee_data[i].tx = t => ee_data[i].eudoxus_state # "live"

\* C7: when t's finish event is over, every stored automaton state of t has
\* been destroyed, whatever failed during the delivery.
C7_DestroyedOnEveryPath ==
    \A t \in Txs :
        txs[t] = "finished" =>
            \A op \in Ops :
                HasEntry(t, op) => ee_data[EntryOf(t, op)].eudoxus_state = "NULL"

\* C8: every live automaton state of an open transaction is the entry of its
\* operator id in that transaction's store, and a pair has at most one.
C8_LiveStateIsStored ==
    /\ \A i \in DOMAIN ee_data :
          (ee_data[i].eudoxus_state = "live" /\ txs[ee_data[i].tx] = "active") =>
              EntryOf(ee_data[i].tx, ee_data[i].id) = i
    /\ \A i \in DOMAIN ee_data, j \in DOMAIN ee_data :
          (/\ i # j
           /\ ee_data[i].eudoxus_state = "live"
           /\ ee_data[j].eudoxus_state = "live") =>
              <<ee_data[i].tx, ee_data[i].id>> # <<ee_data[j].tx, ee_data[j].id>>

\* C9: a streaming call of transaction t touches only t's store and t's
\* record of the operator; the record its first call creates belongs to t and
\* holds what one feed from the root with the flag clear leaves.
C9_TransactionsIsolated ==
    [][IsFeed =>
         LET t == last'.tx
             op == last'.op
             e == EntryOf(t, op)
         IN  /\ \A u \in Txs \ {t} : module_data'[u] = module_data[u]
             /\ \A i \in DOMAIN ee_data : ee_data[i].tx # t => ee_data'[i] = ee_data[i]
             /\ e # NoEntry => ee_data[e].tx = t /\ ee_data[e].id = op
             /\ (e = NoEntry /\ Len(ee_data') > Len(ee_data)) =>
                   LET d == ee_data'[Len(ee_data')]
                   IN  /\ d.tx = t /\ d.id = op
                       /\ ~d.end_of_automata
                       /\ d.node = IF last'.field = Bytestr(<<"G">>)
                                   THEN <<"G">> ELSE <<>>]_vars

\* tx2's first call left a fresh cursor while tx1's record of the same
\* operator had already reached end-of-automata.
C9_Witness ==
    /\ last.kind = "ee_stream"
    /\ last.tx = "tx2"
    /\ HasEntry("tx2", last.op) /\ HasEntry("tx1", last.op)
    /\ ee_data[EntryOf("tx1", last.op)].end_of_automata
    /\ EntryOf("tx2", last.op) = Len(ee_data)
    /\ EntryOf("tx1", last.op) < Len(ee_data)
    /\ ee_data[EntryOf("tx2", last.op)].node = <<"G">>
    /\ ~ee_data[EntryOf("tx2", last.op)].end_of_automata

(***************************************************************************)
(* Properties of the one-shot operators (under SpecOneShot).               *)
(***************************************************************************)
\* The automaton reaches an output while reading v from its root.
HasMatch(eudoxus, v) == \E n \in 1..Len(v) : SubSeq(v, 1, n) \in Words(eudoxus)

CaptureFaults == {"capture_clear", "bytestr_dup", "field_create", "capture_set_item"}

\* The call scanned a readable string field and no capture step failed.
Scanned(call) ==
    /\ call.field.type \in {"IB_FTYPE_NULSTR", "IB_FTYPE_BYTESTR"}
    /\ call.field.valrc = IB_OK
    /\ call.fault # "create_state"
    /\ call.capture = NullCapture \/ call.fault \notin CaptureFaults

\* C10: one-shot ee returns IB_OK with result 1 when the automaton reports a
\* match in the input, whether or not the match covers the whole input, and
\* IB_OK with result 0 when it reports none.
C10_OneShotFirstMatch ==
    (last.kind = "ee" /\ Scanned(last)) =>
        /\ last.rc = IB_OK
        /\ last.result = IF HasMatch(eudoxus_of(last.op), last.field.value) THEN 1 ELSE 0

C10_Witness ==
    /\ last.kind = "ee"
    /\ last.op = "op1"
    /\ last.field = Bytestr(SampleGETSpSlash)
    /\ last.rc = IB_OK
    /\ last.result = 1

\* The lengths of the matches the automaton reports while reading v from its
\* root, and the n-th of them in the order they are reported.
MatchLens(eudoxus, v) == {n \in 1..Len(v) : SubSeq(v, 1, n) \in Words(eudoxus)}

MatchRank(eudoxus, v, n) == Cardinality({k \in MatchLens(eudoxus, v) : k <= n})

\* C11: one-shot ee_match returns result 1 only when a match as long as the
\* whole input was recorded; when the automaton reports no match of the
\* input's full length the call returns IB_OK with result 0, as for "GET /"
\* against "GET".
C11_FullMatchOnly ==
    (last.kind = "ee_match" /\ Scanned(last)) =>
        LET v == last.field.value
            lens == MatchLens(eudoxus_of(last.op), v)
        IN  /\ last.rc = IB_OK
            /\ last.result \in {0, 1}
            /\ last.result = 1 => Len(v) \in lens
            /\ Len(v) \notin lens => last.result = 0
            /\ (lens # {} /\ \A n \in lens : n = Len(v)) => last.result = 1

C11_Witness ==
    /\ last.kind = "ee_match"
    /\ last.op = "op1"
    /\ last.field = Bytestr(SampleGETSpSlash)
    /\ last.rc = IB_OK
    /\ last.result = 0

RecordedLens(kind, eudoxus, v) ==
    LET lens == MatchLens(eudoxus, v)
    IN  IF kind = "ee"
        THEN {n \in lens : MatchRank(eudoxus, v, n) = 1}
        ELSE {n \in lens : /\ MatchRank(eudoxus, v, n) % 2 = 1
                            /\ \A k \in lens :
                                  (k > n) => MatchRank(eudoxus, v, k) % 2 = 0}

\* C13: when a capture target is supplied and a match is recorded, item 0 of
\* the capture collection is the matched substring: the same length and the
\* same bytes in the same order.
C13_CaptureEqualsMatch ==
    (/\ last.kind \in {"ee", "ee_match"}
     /\ Scanned(last)
     /\ last.capture # NullCapture) =>
        \A n \in RecordedLens(last.kind, eudoxus_of(last.op), last.field.value) :
            /\ Len(captures[last.capture]) = n
            /\ \A i \in 1..n : captures[last.capture][i] = last.field.value[i]

C13_Witness ==
    /\ last.kind = "ee"
    /\ last.capture = "cap1"
    /\ last.fault = "none"
    /\ last.field = Bytestr(SampleGETSpSlash)
    /\ last.op = "op2"
    /\ captures["cap1"] = SampleGE

(***************************************************************************)
(* The Lua runtime pool (modlua_acquirestate / modlua_releasestate over    *)
(* the engine's resource pool).  created counts the runtimes made so far,  *)
(* free holds the ones lying in the pool.  An acquire takes a free         *)
(* runtime, or makes a new one while fewer than MaxInstances exist, or     *)
(* blocks; acqrc is the failure it reports instead, if any.                *)
(***************************************************************************)
MaxInstances == 2      \* the configured maximum of concurrent runtimes

\* the acquire makes a new runtime whenever none is free
modlua_acquirestate_unbounded(created, free, acqrc) ==
    IF acqrc # IB_OK
    THEN [rc |-> acqrc, blocked |-> FALSE, runtime |-> NoRuntime,
          created |-> created, free |-> free]
    ELSE IF free # {}
    THEN LET i == CHOOSE x \in free : \A y \in free : x <= y
         IN  [rc |-> IB_OK, blocked |-> FALSE, runtime |-> i,
              created |-> created, free |-> free \ {i}]
    ELSE [rc |-> IB_OK, blocked |-> FALSE, runtime |-> created + 1,
          created |-> created + 1, free |-> free]

modlua_acquirestate(created, free, acqrc) ==
    IF acqrc # IB_OK
    THEN [rc |-> acqrc, blocked |-> FALSE, runtime |-> NoRuntime,
          created |-> created, free |-> free]
    ELSE IF free # {}
    THEN LET i == CHOOSE x \in free : \A y \in free : x <= y
         IN  [rc |-> IB_OK, blocked |-> FALSE, runtime |-> i,
              created |-> created, free |-> free \ {i}]
    ELSE IF created < MaxInstances
    THEN [rc |-> IB_OK, blocked |-> FALSE, runtime |-> created + 1,
          created |-> created + 1, free |-> free]
    ELSE [rc |-> IB_OK, blocked |-> TRUE, runtime |-> NoRuntime,
          created |-> created, free |-> free]

\* The runtime goes back to the pool whatever status the release reports.
modlua_releasestate(free, runtime) == free \cup {runtime}

(***************************************************************************)
(* The bridged callbacks, from the successful acquire to the return.       *)
(* outcome names the step that fails ("ok": none does), rc2 is the status  *)
(* of modlua_releasestate.  Each returns its status and whether it called  *)
(* modlua_releasestate.                                                    *)
(***************************************************************************)
LuaCallbacks == {"modlua_null", "modlua_ctx", "modlua_conn", "modlua_tx",
                 "modlua_txdata", "modlua_header", "modlua_reqline",
                 "modlua_respline", "modlua_logevent"}

\* The `exit:` label: release, and report the release's failure only when
\* nothing failed before it.
\* An `exit:` label that reports the release's failure whatever came before.
modlua_exit_release_first(rc, rc2) ==
    [rc |-> IF rc2 # IB_OK THEN rc2 ELSE rc, released |-> TRUE]

modlua_exit(rc, rc2) ==
    [rc |-> IF rc2 # IB_OK /\ rc = IB_OK THEN rc2 ELSE rc, released |-> TRUE]

\* A return that leaves the function without passing `exit:`.
modlua_return(rc) == [rc |-> rc, released |-> FALSE]

SetupOutcomes == {"callback_setup", "pcall", "ok"}

ReloadOutcomes == {"reload_ctx_main", "reload_ctx_except_main"} \cup SetupOutcomes

LogeventOutcomes == {"checkstack", "reload_ctx_main", "reload_ctx_except_main",
                     "modlua_nil", "modlua_not_table", "dispatch_nil",
                     "dispatch_not_function", "push_handler", "pcall", "ok"}

step_rc(outcome) == IF outcome = "ok" THEN IB_OK ELSE IB_EOTHER

modlua_null(outcome, rc2) == modlua_exit(step_rc(outcome), rc2)

modlua_ctx(outcome, rc2) == modlua_exit(step_rc(outcome), rc2)

modlua_conn(outcome, rc2) == modlua_exit(step_rc(outcome), rc2)

modlua_tx(outcome, rc2) == modlua_exit(step_rc(outcome), rc2)

modlua_txdata(outcome, rc2) == modlua_exit(step_rc(outcome), rc2)

modlua_header(outcome, rc2) == modlua_exit(step_rc(outcome), rc2)

modlua_reqline(outcome, rc2) == modlua_exit(step_rc(outcome), rc2)

modlua_respline(outcome, rc2) == modlua_exit(step_rc(outcome), rc2)

modlua_logevent(outcome, rc2) ==
    CASE outcome = "checkstack" -> modlua_return(IB_EOTHER)
      [] outcome \in {"modlua_nil", "modlua_not_table", "dispatch_nil",
                      "dispatch_not_function"} -> modlua_return(IB_EINVAL)
      [] OTHER -> modlua_exit(step_rc(outcome), rc2)

Outcomes(callback) ==
    CASE callback \in {"modlua_null", "modlua_ctx"} -> ReloadOutcomes
      [] callback = "modlua_logevent" -> LogeventOutcomes
      [] OTHER -> SetupOutcomes

bridged_callback(callback, outcome, rc2) ==
    CASE callback = "modlua_null" -> modlua_null(outcome, rc2)
      [] callback = "modlua_ctx" -> modlua_ctx(outcome, rc2)
      [] callback = "modlua_conn" -> modlua_conn(outcome, rc2)
      [] callback = "modlua_tx" -> modlua_tx(outcome, rc2)
      [] callback = "modlua_txdata" -> modlua_txdata(outcome, rc2)
      [] callback = "modlua_header" -> modlua_header(outcome, rc2)
      [] callback = "modlua_reqline" -> modlua_reqline(outcome, rc2)
      [] callback = "modlua_respline" -> modlua_respline(outcome, rc2)
      [] OTHER -> modlua_logevent(outcome, rc2)

(***************************************************************************)
(* Actions of the bridge: a worker dispatches a hook into a bridged        *)
(* callback, acquires a runtime, and runs the rest of the callback.        *)
(***************************************************************************)
\* Worker w enters `callback`: ib_context_module_config, whose failure
\* returns at once.
CallbackEnter(w, callback) ==
    /\ worker[w].pc = "idle"
    /\ \E cfgrc \in {IB_OK, IB_EOTHER} :
          worker' = [worker EXCEPT ![w] =
                        IF cfgrc = IB_OK
                        THEN [pc |-> "acquire", callback |-> callback,
                              runtime |-> NoRuntime]
                        ELSE Idle]
    /\ UNCHANGED <<lua_created, lua_free, lua_lost, corevars, workvars, rulevars,
                   latevars>>

\* modlua_acquirestate returns to w: with a runtime, or with a failure that
\* makes the callback return.  While it blocks, w stays where it is.
CallbackAcquire(w) ==
    /\ worker[w].pc = "acquire"
    /\ \E acqrc \in {IB_OK, IB_EALLOC} :
          LET r == modlua_acquirestate(lua_created, lua_free, acqrc)
          IN  /\ ~r.blocked
              /\ lua_created' = r.created
              /\ lua_free' = r.free
              /\ worker' = [worker EXCEPT ![w] =
                               IF r.rc = IB_OK
                               THEN [pc |-> "run", callback |-> worker[w].callback,
                                     runtime |-> r.runtime]
                               ELSE Idle]
    /\ UNCHANGED <<lua_lost, corevars, workvars, rulevars,
                   latevars>>

\* The rest of the callback, up to its return.
CallbackRun(w) ==
    /\ worker[w].pc = "run"
    /\ \E outcome \in Outcomes(worker[w].callback), rc2 \in {IB_OK, IB_EOTHER} :
          LET r == bridged_callback(worker[w].callback, outcome, rc2)
          IN  /\ lua_free' = IF r.released
                             THEN modlua_releasestate(lua_free, worker[w].runtime)
                             ELSE lua_free
              /\ lua_lost' = IF r.released THEN lua_lost
                             ELSE lua_lost \cup {worker[w].runtime}
    /\ worker' = [worker EXCEPT ![w] = Idle]
    /\ UNCHANGED <<lua_created, corevars, workvars, rulevars,
                   latevars>>

(***************************************************************************)
(* SpecBridge: three workers dispatch hooks into the bridged callbacks of  *)
(* a pool of MaxInstances runtimes.                                        *)
(***************************************************************************)
NextBridge ==
    \/ \E w \in Workers, callback \in LuaCallbacks : CallbackEnter(w, callback)
    \/ \E w \in Workers : CallbackAcquire(w)
    \/ \E w \in Workers : CallbackRun(w)

SpecBridge == Init /\ [][NextBridge]_vars

(***************************************************************************)
(* Properties of the bridged callbacks (under SpecBridge).                 *)
(***************************************************************************)
Held == {worker[w].runtime : w \in {v \in Workers : worker[v].pc = "run"}}

\* C14: a callback that returns after a successful acquire has put its one
\* runtime back into the pool, a callback whose acquire failed (or that
\* returned before acquiring) has released nothing, and no runtime is ever
\* in the hands of a callback that has returned.
C14_ReleasedOnEveryPath ==
    [][\A w \in Workers :
          /\ (worker[w].pc = "run" /\ worker'[w].pc = "idle")
                => /\ worker[w].runtime \in lua_free'
                   /\ lua_free' = lua_free \cup {worker[w].runtime}
          /\ (worker[w].pc = "acquire" /\ worker'[w].pc = "idle")
                => lua_free' = lua_free
          /\ (worker[w].pc = "acquire" /\ worker'[w].pc = "run")
                => /\ worker'[w].runtime # NoRuntime
                   /\ worker'[w].runtime \notin lua_free'
          /\ lua_lost' = {}]_vars

\* a returned modlua_logevent left its runtime out of the pool
C14_Witness == lua_lost # {}

Running == {w \in Workers : worker[w].pc = "run"}

\* C15: at no moment are more than MaxInstances runtimes out of the pool, no
\* two workers hold the same runtime, a runtime a worker holds is not in the
\* pool, and an acquire returns a runtime only when one was free or the pool
\* was below its maximum: with the pool exhausted the worker stays blocked.
C15_PoolBounded ==
    [][/\ lua_created' <= MaxInstances
       /\ Cardinality({worker'[w].runtime : w \in {v \in Workers : worker'[v].pc = "run"}}
                      \cup lua_lost') <= MaxInstances
       /\ \A w1, w2 \in Workers :
             (w1 # w2 /\ worker'[w1].pc = "run" /\ worker'[w2].pc = "run")
                => worker'[w1].runtime # worker'[w2].runtime
       /\ \A w \in Workers :
             /\ worker'[w].pc = "run" => worker'[w].runtime \notin lua_free' \cup lua_lost'
             /\ (worker[w].pc = "acquire" /\ worker'[w].pc = "run")
                   => /\ lua_free # {} \/ lua_created < MaxInstances
                      /\ worker'[w].runtime \notin Held \cup lua_lost]_vars

\* every runtime of the pool is held by a running callback and another worker
\* waits in its acquire
C15_Witness ==
    /\ lua_created = MaxInstances
    /\ lua_free = {}
    /\ Cardinality(Held) = MaxInstances
    /\ Cardinality(Running) = MaxInstances
    /\ \E w \in Workers : worker[w].pc = "acquire"

(***************************************************************************)
(* Workers inside the streaming operator.  The first part of               *)
(* ee_operator_execute_stream finds or creates the ee_tx_data_t of the     *)
(* (instance, transaction) pair; from then to the return of                *)
(* ee_operator_execute_common the worker works on that record.             *)
(***************************************************************************)
\* ee_operator_execute_stream up to the call of ee_operator_execute_common:
\* data is the index of the record the call goes on with.
ee_operator_execute_stream_data(tx, op, capture, hash, datas, fault) ==
    LET g == get_ee_tx_data(hash, op, fault)
    IN  IF g.rc = IB_ENOENT
        THEN IF fault = "alloc_data"
             THEN [rc |-> "SIGSEGV", stored |-> g.stored, datas |-> datas, data |-> NoEntry]
             ELSE IF fault = "alloc_cbdata"
             THEN [rc |-> IB_EALLOC, stored |-> g.stored, datas |-> datas, data |-> NoEntry]
             ELSE IF fault = "create_state"
             THEN [rc |-> IB_EINVAL, stored |-> g.stored, datas |-> datas, data |-> NoEntry]
             ELSE LET id == Len(datas) + 1
                      st == set_ee_tx_data(g.stored, op, id, fault)
                  IN  [rc |-> IB_OK, stored |-> st.stored,
                       datas |-> Append(datas, new_tx_data(tx, op, capture)),
                       data |-> id]
        ELSE IF g.rc # IB_OK
        THEN [rc |-> g.rc, stored |-> g.stored, datas |-> datas, data |-> NoEntry]
        ELSE [rc |-> IB_OK, stored |-> g.stored, datas |-> datas, data |-> g.tx_data]

WorkerFaults == {"none", "hash_create", "create_state"}

\* Worker w, advancing transaction t, enters the streaming operator `op`.  A
\* transaction is advanced by one worker at a time.
ExecBegin(w, t, op, field, fault) ==
    /\ ~crashed
    /\ exec[w] = NoExec
    /\ txs[t] = "active"
    /\ \A v \in Workers : exec[v].tx # t
    /\ HasEntry(t, op) \/ Len(ee_data) < MaxData
    /\ LET r == ee_operator_execute_stream_data(t, op, NullCapture, module_data[t],
                                                ee_data, fault)
       IN  /\ module_data' = [module_data EXCEPT ![t] = r.stored]
           /\ ee_data' = r.datas
           /\ exec' = [exec EXCEPT ![w] =
                          IF r.rc = IB_OK
                          THEN [tx |-> t, op |-> op, field |-> field, data |-> r.data]
                          ELSE NoExec]
    /\ UNCHANGED <<txs, captures, last, crashed, operator_data, hookvars, bridgevars,
                   rulevars,
                   latevars>>

\* ee_operator_execute_common on the record found, and the operator's return.
ExecCommon(w) ==
    /\ exec[w] # NoExec
    /\ \E garbage \in Uninit32 :
          LET r == ee_operator_execute_common(operator_data[exec[w].op].eudoxus,
                                              ee_data[exec[w].data], exec[w].field,
                                              FALSE, captures, "none", garbage)
          IN  /\ ee_data' = [ee_data EXCEPT ![exec[w].data] = r.data]
              /\ captures' = r.caps
    /\ exec' = [exec EXCEPT ![w] = NoExec]
    /\ UNCHANGED <<txs, module_data, last, crashed, operator_data, hookvars, bridgevars,
                   rulevars,
                   latevars>>

(***************************************************************************)
(* SpecWorkers: three workers advance two transactions of different        *)
(* connections through the streaming and one-shot operators of the same    *)
(* operator instances.                                                     *)
(***************************************************************************)
NextWorkers ==
    \/ \E w \in Workers, t \in Txs, op \in Ops, f \in LifecycleFields,
          fault \in WorkerFaults : ExecBegin(w, t, op, f, fault)
    \/ \E w \in Workers : ExecCommon(w)
    \/ \E t \in Txs, op \in Ops, f \in BytestrFields({<<"G">>}), full \in BOOLEAN :
          OneShot(t, op, f, NullCapture, full, "none")
    \/ ResultTaken

SpecWorkers == Init /\ [][NextWorkers]_vars

(***************************************************************************)
(* Properties of concurrent operator executions (under SpecWorkers).       *)
(***************************************************************************)
Executing == {w \in Workers : exec[w] # NoExec}

\* C16: two workers inside the streaming operator never work on the same
\* ee_tx_data_t, the record a worker works on belongs to the transaction and
\* the instance of its call, and no step of any operator changes an
\* operator instance: its id and automaton stay as ee_operator_create set them.
C16_ExclusiveStateSharedInstance ==
    [][/\ \A w1, w2 \in Workers :
             (w1 # w2 /\ exec'[w1] # NoExec /\ exec'[w2] # NoExec)
                => exec'[w1].data # exec'[w2].data
       /\ \A w \in Workers :
             exec'[w] # NoExec
                => /\ ee_data'[exec'[w].data].tx = exec'[w].tx
                   /\ ee_data'[exec'[w].data].id = exec'[w].op
       /\ operator_data' = operator_data
       /\ \A op \in DOMAIN operator_data :
             operator_data'[op] = ee_operator_create(op)]_vars

\* two workers are inside the streaming operator of the same instance, for
\* two transactions
C16_Witness ==
    \E w1, w2 \in Workers :
       /\ w1 # w2
       /\ exec[w1] # NoExec /\ exec[w2] # NoExec
       /\ exec[w1].op = exec[w2].op
       /\ exec[w1].tx # exec[w2].tx
       /\ ee_data[exec[w1].data].node # <<>>

(***************************************************************************)
(* RuleArbitration, ownership.  An ownership function is named; Claims is  *)
(* the set of rules it claims when asked.  A rule being registered is      *)
(* offered to the ownership functions in registration order; the first     *)
(* claim ends the query, and an unclaimed rule goes to the default rule    *)
(* system's list.                                                          *)
(***************************************************************************)
OwnershipFns == {"ownA", "ownB", "ownC"}

Claims(fn) ==
    CASE fn = "ownA" -> {"r1", "r2"}
      [] fn = "ownB" -> {"r1"}
      [] OTHER -> {"r2"}

Names(fns) == {fns[i] : i \in 1..Len(fns)}

register_rule_ownership(fns, name) == Append(fns, name)

\* the query asks every function and honours every claim
RECURSIVE rule_ownership_query_all(_, _, _, _)
rule_ownership_query_all(fns, rule, i, queried) ==
    IF i > Len(fns) THEN [queried |-> queried, owners |-> {}]
    ELSE LET rest == rule_ownership_query_all(fns, rule, i + 1, Append(queried, fns[i]))
         IN  [queried |-> rest.queried,
              owners |-> rest.owners \cup (IF rule \in Claims(fns[i]) THEN {fns[i]} ELSE {})]

RECURSIVE rule_ownership_query(_, _, _, _)
rule_ownership_query(fns, rule, i, queried) ==
    IF i > Len(fns) THEN [queried |-> queried, owners |-> {}]
    ELSE IF rule \in Claims(fns[i])
    THEN [queried |-> Append(queried, fns[i]), owners |-> {fns[i]}]
    ELSE rule_ownership_query(fns, rule, i + 1, Append(queried, fns[i]))

\* every registered rule goes to the default list
rule_register_always_default(fns, rule, defaults) ==
    LET q == rule_ownership_query(fns, rule, 1, <<>>)
    IN  [entry |-> [registered |-> TRUE, asked_of |-> Len(fns),
                    queried |-> q.queried, owners |-> q.owners],
         defaults |-> Append(defaults, rule)]

rule_register(fns, rule, defaults) ==
    LET q == rule_ownership_query(fns, rule, 1, <<>>)
    IN  [entry |-> [registered |-> TRUE, asked_of |-> Len(fns),
                    queried |-> q.queried, owners |-> q.owners],
         defaults |-> IF q.owners = {} THEN Append(defaults, rule) ELSE defaults]

\* Engine::register_rule_ownership(name, ownership).
RegisterRuleOwnership(fn) ==
    /\ fn \notin Names(ownership_fns)
    /\ ownership_fns' = register_rule_ownership(ownership_fns, fn)
    /\ UNCHANGED <<rules, default_rules, injectvars, blockvars, corevars, bridgevars,
                   workvars,
                   latevars>>

\* The configuration registers candidate rule r.
RegisterRule(r) ==
    /\ ~rules[r].registered
    /\ LET x == rule_register(ownership_fns, r, default_rules)
       IN  /\ rules' = [rules EXCEPT ![r] = x.entry]
           /\ default_rules' = x.defaults
    /\ UNCHANGED <<ownership_fns, injectvars, blockvars, corevars, bridgevars, workvars,
                   latevars>>

(***************************************************************************)
(* SpecOwnership: ownership functions and candidate rules registered in    *)
(* every order.                                                            *)
(***************************************************************************)
NextOwnership ==
    \/ \E fn \in OwnershipFns : RegisterRuleOwnership(fn)
    \/ \E r \in Rules : RegisterRule(r)

SpecOwnership == Init /\ [][NextOwnership]_vars

(***************************************************************************)
(* Properties of ownership arbitration (under SpecOwnership).              *)
(***************************************************************************)
\* the functions registered when rule r was registered, and which of them
\* would claim it
AskedOf(r) == SubSeq(ownership_fns, 1, rules[r].asked_of)

Claimers(r) == {i \in 1..Len(AskedOf(r)) : r \in Claims(AskedOf(r)[i])}

FirstClaimer(r) == CHOOSE k \in Claimers(r) : \A j \in Claimers(r) : k <= j

\* C17: for a registered rule the functions queried are, in registration
\* order, those up to and including the first one that claims it, that one is
\* its only owner, and no function registered after it was queried; when none
\* claims it every function was queried and it has no owner.
C17_FirstRegisteredWins ==
    \A r \in Rules :
       rules[r].registered
          => /\ Cardinality(rules[r].owners) <= 1
             /\ IF Claimers(r) = {}
                THEN /\ rules[r].owners = {}
                     /\ rules[r].queried = AskedOf(r)
                ELSE /\ rules[r].owners = {AskedOf(r)[FirstClaimer(r)]}
                     /\ rules[r].queried = SubSeq(AskedOf(r), 1, FirstClaimer(r))

\* two registered functions both claim a rule and the second was not asked
C17_Witness ==
    \E r \in Rules :
       /\ rules[r].registered
       /\ Cardinality(Claimers(r)) = 2
       /\ Len(rules[r].queried) < rules[r].asked_of
       /\ rules[r].owners # {}

\* C18: a rule is in the default list exactly when it was registered and no
\* ownership function claimed it; it is there once.
C18_DefaultListIsUnclaimed ==
    /\ \A r \in Rules :
          r \in Names(default_rules) <=> (rules[r].registered /\ Claimers(r) = {})
    /\ \A i, j \in 1..Len(default_rules) :
          default_rules[i] = default_rules[j] => i = j

\* with ownership functions registered, one rule was claimed and kept out of
\* the default list and another, unclaimed, is in it
C18_Witness ==
    /\ \E r \in Rules :
          rules[r].registered /\ Claimers(r) # {} /\ r \notin Names(default_rules)
    /\ \E r \in Rules :
          rules[r].registered /\ rules[r].asked_of > 0 /\ r \in Names(default_rules)

(***************************************************************************)
(* RuleArbitration, injection.  An injection function is named; Returns is *)
(* the rule list it hands back when invoked.  The query of a phase invokes *)
(* the functions registered for that phase in registration order and       *)
(* appends each one's list to the phase's injected rules.                  *)
(***************************************************************************)
InjectionFns == {"injA", "injB", "injC"}

Returns(fn) ==
    CASE fn = "injA" -> <<"r1", "r2">>
      [] fn = "injB" -> <<>>
      [] OTHER -> <<"r3", "r1">>

register_rule_injection(fns, phase, name) == [fns EXCEPT ![phase] = Append(@, name)]

\* each function's list is put in front of what was collected
RECURSIVE rule_injection_query_prepend(_, _, _, _)
rule_injection_query_prepend(fns, i, calls, list) ==
    IF i > Len(fns) THEN [calls |-> calls, rules |-> list]
    ELSE rule_injection_query_prepend(fns, i + 1, Append(calls, fns[i]),
                                      Returns(fns[i]) \o list)

RECURSIVE rule_injection_query(_, _, _, _)
rule_injection_query(fns, i, calls, list) ==
    IF i > Len(fns) THEN [calls |-> calls, rules |-> list]
    ELSE rule_injection_query(fns, i + 1, Append(calls, fns[i]),
                              list \o Returns(fns[i]))

\* Engine::register_rule_injection(name, phase, injection).
RegisterRuleInjection(phase, fn) ==
    /\ fn \notin Names(injection_fns[phase])
    /\ injection_fns' = register_rule_injection(injection_fns, phase, fn)
    /\ UNCHANGED <<injected, ownervars, blockvars, corevars, bridgevars, workvars,
                   latevars>>

\* The rule engine runs `phase` for a transaction and asks for injected rules.
RunPhase(phase) ==
    /\ LET q == rule_injection_query(injection_fns[phase], 1, <<>>, <<>>)
       IN  injected' = [phase |-> phase, fns |-> injection_fns[phase],
                        calls |-> q.calls, rules |-> q.rules]
    /\ UNCHANGED <<injection_fns, ownervars, blockvars, corevars, bridgevars, workvars,
                   latevars>>

(***************************************************************************)
(* SpecInjection: injection functions registered for two phases in every   *)
(* order, and the phases run.                                              *)
(***************************************************************************)
NextInjection ==
    \/ \E p \in Phases, fn \in InjectionFns : RegisterRuleInjection(p, fn)
    \/ \E p \in Phases : RunPhase(p)

SpecInjection == Init /\ [][NextInjection]_vars

(***************************************************************************)
(* Properties of rule injection (under SpecInjection).                     *)
(***************************************************************************)
RECURSIVE Concatenated(_)
Concatenated(fns) ==
    IF fns = <<>> THEN <<>> ELSE Returns(Head(fns)) \o Concatenated(Tail(fns))

\* C19: the query of a phase invoked the functions registered for that phase,
\* each once and in registration order, and the injected list is their
\* returned lists one after the other in that order, each list as returned.
C19_InjectionConcatenatesInOrder ==
    injected.phase # "none"
       => /\ injected.calls = injected.fns
          /\ \A fn \in InjectionFns :
                Cardinality({i \in 1..Len(injected.calls) : injected.calls[i] = fn})
                   = (IF fn \in Names(injected.fns) THEN 1 ELSE 0)
          /\ injected.fns = SubSeq(injection_fns[injected.phase], 1, Len(injected.fns))
          /\ injected.rules = Concatenated(injected.fns)

\* a phase with two functions returning rules was queried while the other
\* phase has other functions registered
C19_Witness ==
    /\ injected.phase # "none"
    /\ Len(injected.fns) = 3
    /\ injected.fns[1] = "injC"
    /\ Len(injected.rules) = 4
    /\ \E p \in Phases : p # injected.phase /\ injection_fns[p] # injected.fns
                         /\ injection_fns[p] # <<>>

(***************************************************************************)
(* BlockDecisionChain.  A pre-block hook is named after what it does to    *)
(* the transaction's blocking flag.  A block request runs the pre-block    *)
(* hooks, then, if blocking is still enabled, the handler and the          *)
(* post-block hooks.                                                       *)
(***************************************************************************)
IB_DECLINED == "IB_DECLINED"

PreHooks == {"pre_keep", "pre_off", "pre_on"}

Handlers == {"handler1", "handler2"}

PostHooks == {"postA", "postB"}

block_pre_hook(hook, enabled) ==
    CASE hook = "pre_off" -> FALSE
      [] hook = "pre_on" -> TRUE
      [] OTHER -> enabled

register_block_pre_hook(list, hook) == Append(list, hook)

\* a handler already registered stays; the later registration is dropped
register_block_handler_keep_first(handler, new) == IF handler = NoHandler THEN new ELSE handler

register_block_handler(handler, new) == new

register_block_post_hook(list, hook) == Append(list, hook)

RECURSIVE run_pre_hooks(_, _, _, _)
run_pre_hooks(pre, i, enabled, trace) ==
    IF i > Len(pre) THEN [enabled |-> enabled, trace |-> trace]
    ELSE run_pre_hooks(pre, i + 1, block_pre_hook(pre[i], enabled),
                       Append(trace, [stage |-> "pre", name |-> pre[i]]))

handler_and_post_hooks(handler, post) ==
    <<[stage |-> "handler", name |-> handler]>>
        \o [i \in 1..Len(post) |-> [stage |-> "post", name |-> post[i]]]

\* the handler and the post-block hooks run whatever the pre-block hooks did
tx_block_unconditional(pre, handler, post, enabled) ==
    LET p == run_pre_hooks(pre, 1, enabled, <<>>)
    IN  IF handler = NoHandler
        THEN [rc |-> IB_ENOTIMPL, enabled |-> p.enabled, trace |-> p.trace]
        ELSE [rc |-> IB_OK, enabled |-> p.enabled,
              trace |-> p.trace \o handler_and_post_hooks(handler, post)]

tx_block(pre, handler, post, enabled) ==
    LET p == run_pre_hooks(pre, 1, enabled, <<>>)
    IN  IF ~p.enabled
        THEN [rc |-> IB_DECLINED, enabled |-> FALSE, trace |-> p.trace]
        ELSE IF handler = NoHandler
        THEN [rc |-> IB_ENOTIMPL, enabled |-> TRUE, trace |-> p.trace]
        ELSE [rc |-> IB_OK, enabled |-> TRUE,
              trace |-> p.trace \o handler_and_post_hooks(handler, post)]

\* Engine::register_block_pre_hook(name, hook).
RegisterBlockPreHook(hook) ==
    /\ hook \notin Names(block_pre_hooks)
    /\ block_pre_hooks' = register_block_pre_hook(block_pre_hooks, hook)
    /\ UNCHANGED <<block_handler, last_handler, block_post_hooks, blocked, ownervars, injectvars,
                   corevars, bridgevars, workvars,
                   latevars>>

\* Engine::register_block_handler(name, handler): the one handler of the engine.
RegisterBlockHandler(handler) ==
    /\ last_handler # handler
    /\ block_handler' = register_block_handler(block_handler, handler)
    /\ last_handler' = handler
    /\ UNCHANGED <<block_pre_hooks, block_post_hooks, blocked, ownervars, injectvars,
                   corevars, bridgevars, workvars,
                   latevars>>

\* Engine::register_block_post_hook(name, hook).
RegisterBlockPostHook(hook) ==
    /\ hook \notin Names(block_post_hooks)
    /\ block_post_hooks' = register_block_post_hook(block_post_hooks, hook)
    /\ UNCHANGED <<block_pre_hooks, block_handler, last_handler, blocked, ownervars, injectvars,
                   corevars, bridgevars, workvars,
                   latevars>>

\* Blocking is requested for a transaction whose blocking flag is `enabled`.
BlockRequested(enabled) ==
    /\ LET r == tx_block(block_pre_hooks, block_handler, block_post_hooks, enabled)
       IN  blocked' = [pre |-> block_pre_hooks, handler |-> block_handler,
                       post |-> block_post_hooks, requested |-> TRUE,
                       enabled |-> enabled, trace |-> r.trace]
    /\ UNCHANGED <<block_pre_hooks, block_handler, last_handler, block_post_hooks, ownervars,
                   injectvars, corevars, bridgevars, workvars,
                   latevars>>

(***************************************************************************)
(* SpecBlock: the stages of the block chain registered in every order, and *)
(* block requests for transactions with blocking enabled or disabled.      *)
(***************************************************************************)
NextBlock ==
    \/ \E h \in PreHooks : RegisterBlockPreHook(h)
    \/ \E h \in Handlers : RegisterBlockHandler(h)
    \/ \E h \in PostHooks : RegisterBlockPostHook(h)
    \/ \E enabled \in BOOLEAN : BlockRequested(enabled)

SpecBlock == Init /\ [][NextBlock]_vars

(***************************************************************************)
(* Properties of the block chain (under SpecBlock).                        *)
(***************************************************************************)
StageNames(trace, stage) ==
    LET IsStage(e) == e.stage = stage
        sel == SelectSeq(trace, IsStage)
    IN  [i \in 1..Len(sel) |-> sel[i].name]

\* whether blocking is enabled after the pre-block hooks `pre` ran on a
\* transaction whose flag was `enabled`: the last hook that sets it decides
EnabledAfter(pre, enabled) ==
    LET setters == {i \in 1..Len(pre) : pre[i] \in {"pre_off", "pre_on"}}
    IN  IF setters = {} THEN enabled
        ELSE pre[CHOOSE k \in setters : \A j \in setters : j <= k] = "pre_on"

\* C20: a block request ran every registered pre-block hook, in order,
\* whatever the blocking flag was; the handler and then every post-block hook
\* ran only if blocking was enabled after the pre-block hooks, and neither ran
\* if it was not; no pre-block hook ran after the handler and no handler or
\* pre-block hook after a post-block hook.
C20_BlockChainOrder ==
    blocked.requested
       => LET tr == blocked.trace
              on == EnabledAfter(blocked.pre, blocked.enabled)
          IN  /\ StageNames(tr, "pre") = blocked.pre
              /\ ~on => /\ StageNames(tr, "handler") = <<>>
                        /\ StageNames(tr, "post") = <<>>
              /\ (on /\ blocked.handler # NoHandler)
                    => /\ StageNames(tr, "handler") = <<blocked.handler>>
                       /\ StageNames(tr, "post") = blocked.post
              /\ Len(StageNames(tr, "handler")) <= 1
              /\ StageNames(tr, "post") # <<>> => StageNames(tr, "handler") # <<>>
              /\ \A i, j \in 1..Len(tr) :
                    i < j => /\ ~(tr[i].stage = "handler" /\ tr[j].stage = "pre")
                             /\ ~(tr[i].stage = "post" /\ tr[j].stage \in {"pre", "handler"})

\* a pre-block hook switched blocking off for a request that had it enabled,
\* with a handler and post-block hooks registered: only the pre-block hooks ran
C20_Witness ==
    /\ blocked.requested
    /\ blocked.enabled
    /\ Len(blocked.pre) >= 2
    /\ ~EnabledAfter(blocked.pre, blocked.enabled)
    /\ blocked.handler # NoHandler
    /\ blocked.post # <<>>
    /\ Len(blocked.trace) = Len(blocked.pre)

\* C21: the engine's block handler is the one of the latest registration, a
\* block request runs at most one handler, and the handler it runs is the
\* one registered last before the request.
C21_SingleBlockHandler ==
    /\ block_handler = last_handler
    /\ blocked.requested
          => /\ Len(StageNames(blocked.trace, "handler")) <= 1
             /\ \A i \in 1..Len(blocked.trace) :
                   blocked.trace[i].stage = "handler"
                      => blocked.trace[i].name = blocked.handler

\* a block request ran handler1, the handler registered then, and a later
\* registration has put handler2 in its place
C21_Witness ==
    /\ blocked.requested
    /\ StageNames(blocked.trace, "handler") = <<"handler1">>
    /\ blocked.handler = "handler1"
    /\ block_handler = "handler2"

(***************************************************************************)
(* Configuration and runtime phases of the engine.  The server tells the   *)
(* engine that configuration has started and that it is finished; modules  *)
(* are loaded and wired by configuration directives, connections and       *)
(* transactions are notified at runtime.                                   *)
(***************************************************************************)
\* states are notified in whatever phase the engine is in
may_notify_any(phase) == TRUE

may_notify(phase) == phase = "CFG_FINISHED"

may_configure(phase) == phase = "CFG_STARTED"

\* Engine::configuration_started(configuration_parser).
ConfigurationStarted ==
    /\ cfg_state = "CFG_NOT_STARTED"
    /\ cfg_state' = "CFG_STARTED"
    /\ UNCHANGED <<corevars, bridgevars, workvars, rulevars, wiring, morevars>>

\* Engine::configuration_finished().
ConfigurationFinished ==
    /\ cfg_state = "CFG_STARTED"
    /\ cfg_state' = "CFG_FINISHED"
    /\ UNCHANGED <<corevars, bridgevars, workvars, rulevars, wiring, morevars>>

(***************************************************************************)
(* SpecPhases: an engine is configured, its modules loaded (the native one *)
(* registers hooks, the Lua one is wired), and then connection and         *)
(* transaction states are notified.                                        *)
(***************************************************************************)
NextPhases ==
    \/ ConfigurationStarted
    \/ may_configure(cfg_state) /\ \E m \in LuaModules : WireLuaModule(m)
    \/ /\ may_configure(cfg_state)
       /\ \E s \in States, sh \in {ib_state_hook_type(u) : u \in States},
             m \in NativeModules : RegisterHook(s, sh, m)
    \/ ConfigurationFinished
    \/ may_notify(cfg_state) /\ \E s \in States : NotifyState(s)

SpecPhases == HooksInit /\ [][NextPhases]_vars

\* C22: a connection or transaction state is delivered only when
\* configuration has finished; a module is loaded only while configuration is
\* going on and before any state was delivered; the phase only moves from
\* not started to started to finished, and never after a delivery.
C22_ConfigurationBeforeRuntime ==
    [][/\ delivery' # delivery => cfg_state = "CFG_FINISHED"
       /\ delivery' # NoDelivery => cfg_state' = "CFG_FINISHED"
       /\ (wired' # wired \/ hooks' # hooks)
             => cfg_state = "CFG_STARTED" /\ delivery = NoDelivery
       /\ cfg_state' # cfg_state
             => /\ delivery = NoDelivery
                /\ <<cfg_state, cfg_state'>> \in {<<"CFG_NOT_STARTED", "CFG_STARTED">>,
                                                  <<"CFG_STARTED", "CFG_FINISHED">>}]_vars

\* after configuration a transaction state was delivered to the hook of the
\* Lua module wired during configuration
C22_Witness ==
    /\ cfg_state = "CFG_FINISHED"
    /\ wired # {}
    /\ delivery.state = "tx_finished_state"
    /\ \E i \in 1..Len(delivery.calls) : delivery.calls[i].module \in LuaModules

(***************************************************************************)
(* Registration and wiring with their inputs and status on record.  The    *)
(* wiring loop is also run over one more event, "unknown_state", whose     *)
(* hook type is IB_STATE_HOOK_INVALID; `unknown` is the probe's result for *)
(* it.                                                                     *)
(***************************************************************************)
HookShapes == {"IB_STATE_HOOK_CONN", "IB_STATE_HOOK_TX", "IB_STATE_HOOK_TXDATA"}

ProbeResults == {IB_OK, IB_ENOENT, IB_EINVAL}

\* modlua_module_load_wire_callbacks whose loop, after the taxonomy's events,
\* comes to an event of invalid hook type.
wire_callbacks_with_unknown_state(hs, n, levs, m, mmrc, levprobe, probe, allocrc, unknown) ==
    LET r == modlua_module_load_wire_callbacks(hs, n, levs, m, mmrc, levprobe, probe, allocrc)
        x == wire_state(r.hooks, r.nreg, m, "unknown_state", unknown, IB_OK)
    IN  IF r.rc # IB_OK THEN r
        ELSE [rc |-> IF x.rc # IB_OK /\ x.rc # IB_ENOENT THEN x.rc ELSE IB_OK,
              hooks |-> x.hooks, nreg |-> x.nreg, logevent_hooks |-> r.logevent_hooks]

\* A native module calls the registration function of `shape` for `state`.
HookRegistered(state, shape, m) ==
    /\ Len(hooks[state]) < MaxHooks
    /\ \E allocrc \in {IB_OK, IB_EALLOC} :
          LET r == hook_register(hooks, state, shape,
                                 [module |-> m, callback |-> "native",
                                  seq |-> nreg[state] + 1],
                                 allocrc)
          IN  /\ hooks' = r.hooks
              /\ nreg' = IF r.rc = IB_OK THEN [nreg EXCEPT ![state] = @ + 1] ELSE nreg
              /\ wiring' = [NoWiring EXCEPT !.kind = "register", !.module = m,
                                            !.state = state, !.shape = shape,
                                            !.fault = (allocrc # IB_OK), !.rc = r.rc]
    /\ UNCHANGED <<logevent_hooks, wired, ran, delivery, eevars, bridgevars, workvars,
                   rulevars, cfg_state, morevars>>

\* Lua module m is loaded and wired.
ModuleWired(m) ==
    /\ m \notin wired
    /\ \A s \in States : Len(hooks[s]) < MaxHooks
    /\ \E mmrc \in {IB_OK, IB_EOTHER, IB_EALLOC}, levprobe \in ProbeResults,
          probe \in [States -> ProbeResults], allocrc \in [States -> {IB_OK, IB_EALLOC}],
          unknown \in ProbeResults :
          LET r == wire_callbacks_with_unknown_state(hooks, nreg, logevent_hooks, m, mmrc,
                                                     levprobe, probe, allocrc, unknown)
          IN  /\ hooks' = r.hooks
              /\ nreg' = r.nreg
              /\ logevent_hooks' = r.logevent_hooks
              /\ wiring' = [NoWiring EXCEPT
                               !.kind = "wire", !.module = m, !.probe = probe,
                               !.levprobe = levprobe, !.unknown = unknown,
                               !.fault = (mmrc # IB_OK
                                          \/ \E s \in States : allocrc[s] # IB_OK),
                               !.rc = r.rc]
    /\ wired' = wired \cup {m}
    /\ UNCHANGED <<ran, delivery, eevars, bridgevars, workvars, rulevars, cfg_state,
                   morevars>>

(***************************************************************************)
(* SpecWire: native hook registrations with matching and mismatching       *)
(* shapes, and the wiring of a Lua module under every probe result.        *)
(***************************************************************************)
NextWire ==
    \/ \E s \in States, sh \in HookShapes, m \in NativeModules : HookRegistered(s, sh, m)
    \/ \E m \in LuaModules : ModuleWired(m)

SpecWire == HooksInit /\ [][NextWire]_vars

(***************************************************************************)
(* Properties of registration and wiring (under SpecWire).                 *)
(***************************************************************************)
LuaEntry(m, state, n) ==
    [module |-> m, callback |-> modlua_callback(ib_state_hook_type(state)), seq |-> n]

\* C23: a wiring registers a hook for an event only if the probe found a
\* handler for it; a wiring that returns IB_OK has registered, for every event
\* of the taxonomy, the callback of the event's own shape exactly when the
\* probe found a handler, and nothing for an event without handler; a probe
\* finding no handler is never the wiring's error; the log-event callback is
\* registered exactly when its own probe finds a handler.
C23_HookIffProbe ==
    [][(wiring' # wiring /\ wiring'.kind = "wire") =>
          LET w == wiring'
          IN  /\ \A s \in States :
                    /\ hooks'[s] # hooks[s]
                          => /\ w.probe[s] = IB_OK
                             /\ hooks'[s] = Append(hooks[s], LuaEntry(w.module, s, nreg[s] + 1))
                    /\ (w.rc = IB_OK /\ w.probe[s] = IB_OK) => hooks'[s] # hooks[s]
              /\ w.rc # IB_ENOENT
              /\ (~w.fault /\ w.levprobe \in ProbeResults
                    /\ w.unknown \in {IB_OK, IB_ENOENT}
                    /\ \A s \in States : w.probe[s] \in {IB_OK, IB_ENOENT})
                    => w.rc = IB_OK
              /\ w.rc = IB_OK
                    => (logevent_hooks' = Append(logevent_hooks, w.module)
                           <=> w.levprobe = IB_OK)
              /\ logevent_hooks' # logevent_hooks => w.levprobe = IB_OK]_vars

\* a module with a handler for one event and none for the other was wired:
\* one hook, of the event's shape, and no error
C23_Witness ==
    /\ wiring.kind = "wire"
    /\ wiring.rc = IB_OK
    /\ wiring.probe["conn_opened_state"] = IB_ENOENT
    /\ wiring.probe["tx_finished_state"] = IB_OK
    /\ wiring.levprobe = IB_OK
    /\ hooks["conn_opened_state"] = <<>>
    /\ \E i \in 1..Len(hooks["tx_finished_state"]) :
          /\ hooks["tx_finished_state"][i].module = wiring.module
          /\ hooks["tx_finished_state"][i].callback = "modlua_tx"
    /\ logevent_hooks = <<wiring.module>>

\* C28: a registration with a shape the event does not support returns a
\* failure and adds no hook; a wiring in which the probe finds a handler for
\* an event of invalid hook type returns an error.
C28_UnsupportedShapeFails ==
    [][/\ (wiring'.kind = "register" /\ ib_state_hook_type(wiring'.state) # wiring'.shape)
             => (wiring'.rc # IB_OK /\ hooks' = hooks)
       /\ (wiring'.kind = "wire" /\ wiring'.unknown = IB_OK)
             => wiring'.rc # IB_OK]_vars

\* a wiring found a handler for the event of invalid hook type and returned
\* IB_OK all the same
C28_Witness ==
    /\ wiring.kind = "wire"
    /\ wiring.unknown = IB_OK
    /\ ~wiring.fault
    /\ wiring.rc = IB_OK

\* the registration half alone: a mismatching shape is refused with IB_EINVAL
\* and leaves the hook lists as they were
C28_RegistrationHalf ==
    [][(wiring'.kind = "register" /\ ib_state_hook_type(wiring'.state) # wiring'.shape)
          => (wiring'.rc = IB_EINVAL /\ hooks' = hooks /\ nreg' = nreg)]_vars

(***************************************************************************)
(* Module loading inside a runtime.  modlua_null, modlua_ctx and           *)
(* modlua_logevent ask modlua_contains_module and call                     *)
(* modlua_reload_ctx_main when the runtime lacks the module; the other     *)
(* callbacks go from the acquire straight to modlua_callback_setup.        *)
(* `contained` says whether the acquired runtime holds the module.         *)
(***************************************************************************)
ReloadingCallbacks == {"modlua_null", "modlua_ctx", "modlua_logevent"}

\* The steps between the acquire and modlua_callback_setup: whether the
\* callback asked modlua_contains_module, whether it called
\* modlua_reload_ctx_main, and whether the runtime holds the module after.
modlua_load_in_runtime(callback, contained, outcome) ==
    IF callback \notin ReloadingCallbacks \/ outcome = "checkstack"
    THEN [checked |-> FALSE, reloaded |-> FALSE, loaded |-> contained]
    ELSE [checked |-> TRUE, reloaded |-> ~contained,
          loaded |-> contained \/ outcome # "reload_ctx_main"]

\* The callback came to ib_lua_pcall: the Lua handler ran.
handler_ran(outcome) == outcome \in {"pcall", "ok"}

\* modlua_acquirestate returns to w.  Whether a runtime the pool has just
\* made holds the module is decided by the pool's create function.
CallbackAcquireIn(w) ==
    /\ worker[w].pc = "acquire"
    /\ \E acqrc \in {IB_OK, IB_EALLOC}, fresh \in BOOLEAN :
          LET r == modlua_acquirestate(lua_created, lua_free, acqrc)
          IN  /\ ~r.blocked
              /\ lua_created' = r.created
              /\ lua_free' = r.free
              /\ lua_loaded' = IF r.created # lua_created /\ fresh
                               THEN lua_loaded \cup {r.runtime} ELSE lua_loaded
              /\ worker' = [worker EXCEPT ![w] =
                               IF r.rc = IB_OK
                               THEN [pc |-> "run", callback |-> worker[w].callback,
                                     runtime |-> r.runtime]
                               ELSE Idle]
    /\ UNCHANGED <<lua_lost, corevars, workvars, rulevars, cfg_state, wiring, handled,
                   afterreload>>

\* The rest of the callback, up to its return.
CallbackRunIn(w) ==
    /\ worker[w].pc = "run"
    /\ \E outcome \in Outcomes(worker[w].callback), rc2 \in {IB_OK, IB_EOTHER} :
          LET r == bridged_callback(worker[w].callback, outcome, rc2)
              contained == worker[w].runtime \in lua_loaded
              l == modlua_load_in_runtime(worker[w].callback, contained, outcome)
          IN  /\ lua_free' = IF r.released
                             THEN modlua_releasestate(lua_free, worker[w].runtime)
                             ELSE lua_free
              /\ lua_lost' = IF r.released THEN lua_lost
                             ELSE lua_lost \cup {worker[w].runtime}
              /\ lua_loaded' = IF l.loaded THEN lua_loaded \cup {worker[w].runtime}
                               ELSE lua_loaded
              /\ handled' = [callback |-> worker[w].callback,
                             runtime |-> worker[w].runtime, contained |-> contained,
                             checked |-> l.checked, reloaded |-> l.reloaded,
                             loaded |-> l.loaded, ran |-> handler_ran(outcome)]
    /\ worker' = [worker EXCEPT ![w] = Idle]
    /\ UNCHANGED <<lua_created, corevars, workvars, rulevars, cfg_state, wiring,
                   afterreload>>

(***************************************************************************)
(* SpecReload: two of the workers of SpecBridge, with the module's         *)
(* presence in every runtime on record.                                    *)
(***************************************************************************)
ReloadWorkers == {"w1", "w2"}

NextReload ==
    \/ \E w \in ReloadWorkers, callback \in LuaCallbacks : CallbackEnter(w, callback)
    \/ \E w \in ReloadWorkers : CallbackAcquireIn(w)
    \/ \E w \in ReloadWorkers : CallbackRunIn(w)

SpecReload == Init /\ [][NextReload]_vars

(***************************************************************************)
(* Properties of module loading (under SpecReload).                        *)
(***************************************************************************)
\* C24: a Lua handler runs only in a runtime that holds its module: every
\* callback, whatever its shape, asks whether the runtime holds the module
\* before it runs the handler, reloads the module when the runtime lacks it,
\* and does not reload it into a runtime that holds it.
C24_LoadedBeforeHandler ==
    [][handled' # handled =>
          /\ handled'.ran => (handled'.checked /\ handled'.loaded)
          /\ (handled'.checked /\ ~handled'.contained) => handled'.reloaded
          /\ handled'.contained => ~handled'.reloaded]_vars

\* modlua_tx ran its handler in a runtime that did not hold the module
C24_Witness ==
    /\ handled.callback = "modlua_tx"
    /\ handled.ran
    /\ ~handled.contained
    /\ ~handled.checked
    /\ ~handled.loaded

\* what the three callbacks that do ask keep: the handler runs in a loaded
\* runtime, reloaded exactly when it lacked the module
C24_ReloadingCallbacksOnly ==
    [][(handled' # handled /\ handled'.callback \in ReloadingCallbacks /\ handled'.checked) =>
          /\ handled'.ran => handled'.loaded
          /\ handled'.reloaded <=> ~handled'.contained]_vars

(***************************************************************************)
(* The pattern directive and the creation of operator instances.  The      *)
(* module's eudoxus_pattern_hash binds pattern names to loaded automata.   *)
(***************************************************************************)
\* the directive binds the name anew whatever it was bound to
load_eudoxus_pattern_param2_rebind(hash, pattern_name, filename, accessrc, ia_rc, cleanuprc, setrc) ==
    IF accessrc # IB_OK THEN [rc |-> IB_EINVAL, hash |-> hash]
    ELSE IF ia_rc # IB_OK THEN [rc |-> IB_EINVAL, hash |-> hash]
    ELSE IF cleanuprc # IB_OK THEN [rc |-> cleanuprc, hash |-> hash]
    ELSE IF setrc # IB_OK THEN [rc |-> setrc, hash |-> hash]
    ELSE [rc |-> IB_OK, hash |-> [hash EXCEPT ![pattern_name] = filename]]

\* LoadEudoxus <pattern_name> <filename>.  accessrc: access(file, R_OK);
\* ia_rc: ia_eudoxus_create_from_path; cleanuprc: ib_mm_register_cleanup;
\* setrc: ib_hash_set.
load_eudoxus_pattern_param2(hash, pattern_name, filename, accessrc, ia_rc, cleanuprc, setrc) ==
    IF hash[pattern_name] # NoEudoxus THEN [rc |-> IB_EEXIST, hash |-> hash]
    ELSE IF accessrc # IB_OK THEN [rc |-> IB_EINVAL, hash |-> hash]
    ELSE IF ia_rc # IB_OK THEN [rc |-> IB_EINVAL, hash |-> hash]
    ELSE IF cleanuprc # IB_OK THEN [rc |-> cleanuprc, hash |-> hash]
    ELSE IF setrc # IB_OK THEN [rc |-> setrc, hash |-> hash]
    ELSE [rc |-> IB_OK, hash |-> [hash EXCEPT ![pattern_name] = filename]]

\* an instance is handed out although the name is bound to nothing
ee_operator_create_named_unchecked(hash, parameters, modrc, allocrc, uuidrc) ==
    IF modrc # IB_OK THEN [rc |-> modrc, instance |-> NoInstance]
    ELSE IF allocrc # IB_OK THEN [rc |-> IB_EALLOC, instance |-> NoInstance]
    ELSE IF uuidrc # IB_OK THEN [rc |-> uuidrc, instance |-> NoInstance]
    ELSE [rc |-> IB_OK, instance |-> [name |-> parameters, eudoxus |-> hash[parameters]]]

\* ee_operator_create with its lookup of the pattern name.  modrc:
\* ib_engine_module_get; allocrc: ib_mm_alloc; uuidrc: ib_uuid_create_v4.
\* *instance_data is written on the last line only.
ee_operator_create_named(hash, parameters, modrc, allocrc, uuidrc) ==
    IF modrc # IB_OK THEN [rc |-> modrc, instance |-> NoInstance]
    ELSE IF allocrc # IB_OK THEN [rc |-> IB_EALLOC, instance |-> NoInstance]
    ELSE IF hash[parameters] = NoEudoxus THEN [rc |-> IB_ENOENT, instance |-> NoInstance]
    ELSE IF uuidrc # IB_OK THEN [rc |-> uuidrc, instance |-> NoInstance]
    ELSE [rc |-> IB_OK, instance |-> [name |-> parameters, eudoxus |-> hash[parameters]]]

LoadEudoxus(pattern_name, filename) ==
    /\ \E accessrc \in {IB_OK, IB_EINVAL}, ia_rc \in {IB_OK, IB_EINVAL},
          cleanuprc \in {IB_OK, IB_EALLOC}, setrc \in {IB_OK, IB_EALLOC} :
          LET r == load_eudoxus_pattern_param2(eudoxus_pattern_hash, pattern_name, filename,
                                               accessrc, ia_rc, cleanuprc, setrc)
          IN  /\ eudoxus_pattern_hash' = r.hash
              /\ pattern_call' = [NoPatternCall EXCEPT
                                     !.kind = "load", !.name = pattern_name,
                                     !.file = filename,
                                     !.fault = (accessrc # IB_OK \/ ia_rc # IB_OK
                                                \/ cleanuprc # IB_OK \/ setrc # IB_OK),
                                     !.rc = r.rc]
    /\ UNCHANGED <<corevars, bridgevars, workvars, rulevars, cfg_state, wiring,
                   reloadvars, instances, afterpattern>>

OperatorCreate(parameters) ==
    /\ \E modrc \in {IB_OK, IB_ENOENT}, allocrc \in {IB_OK, IB_EALLOC},
          uuidrc \in {IB_OK, IB_EOTHER} :
          LET r == ee_operator_create_named(eudoxus_pattern_hash, parameters,
                                            modrc, allocrc, uuidrc)
          IN  /\ instances' = IF r.rc = IB_OK THEN instances \cup {r.instance}
                              ELSE instances
              /\ pattern_call' = [NoPatternCall EXCEPT
                                     !.kind = "create", !.name = parameters,
                                     !.fault = (modrc # IB_OK \/ allocrc # IB_OK
                                                \/ uuidrc # IB_OK),
                                     !.rc = r.rc, !.instance = r.instance]
    /\ UNCHANGED <<corevars, bridgevars, workvars, rulevars, cfg_state, wiring,
                   reloadvars, eudoxus_pattern_hash, afterpattern>>

(***************************************************************************)
(* SpecPatterns: pattern directives and operator creations in any order.   *)
(***************************************************************************)
NextPatterns ==
    \/ \E n \in PatternNames, f \in AutomataFiles : LoadEudoxus(n, f)
    \/ \E n \in PatternNames : OperatorCreate(n)

SpecPatterns == Init /\ [][NextPatterns]_vars

(***************************************************************************)
(* Properties of pattern names (under SpecPatterns).                       *)
(***************************************************************************)
\* C25: a pattern directive for a name that is already bound returns
\* IB_EEXIST and leaves every binding, that name's automaton included, as it
\* was; creating an operator for a name that was never loaded yields no
\* instance, and returns IB_ENOENT unless an earlier step of the creation
\* failed; an instance that is handed out carries the automaton bound to its
\* name.
C25_ExistsAndNotFound ==
    [][pattern_call' # pattern_call =>
          LET pc == pattern_call'
          IN  /\ (pc.kind = "load" /\ eudoxus_pattern_hash[pc.name] # NoEudoxus)
                    => /\ pc.rc = IB_EEXIST
                       /\ eudoxus_pattern_hash' = eudoxus_pattern_hash
              /\ (pc.kind = "load" /\ pc.rc = IB_EEXIST)
                    => eudoxus_pattern_hash[pc.name] # NoEudoxus
              /\ (pc.kind = "create" /\ eudoxus_pattern_hash[pc.name] = NoEudoxus)
                    => /\ pc.instance = NoInstance
                       /\ instances' = instances
                       /\ pc.rc # IB_OK
                       /\ ~pc.fault => pc.rc = IB_ENOENT
              /\ \A i \in instances' : i.eudoxus # NoEudoxus
                                        /\ i.eudoxus = eudoxus_pattern_hash'[i.name]]_vars

\* "methods" was bound to GET, a second directive for it with GE_GET was
\* refused, and "methods" is still bound to GET
C25_Witness ==
    /\ pattern_call.kind = "load"
    /\ pattern_call.name = "methods"
    /\ pattern_call.file = "GE_GET"
    /\ pattern_call.rc = IB_EEXIST
    /\ eudoxus_pattern_hash["methods"] = "GET"

\* an operator for the unbound name "agents" was asked for and refused
C25_WitnessNotFound ==
    /\ pattern_call.kind = "create"
    /\ pattern_call.name = "agents"
    /\ pattern_call.rc = IB_ENOENT
    /\ eudoxus_pattern_hash["agents"] = NoEudoxus
    /\ instances = {}

(***************************************************************************)
(* Directives.  The six shapes in the order of the enum ib_dirtype_t; the  *)
(* registry and the routing of invocations belong to the configuration     *)
(* parser.  A Lua number is kept in halves (luatype = 11 is 5.5), so that  *)
(* the assignment `type = lua_tonumber(L, 2-args)` truncates as in C.      *)
(***************************************************************************)
DirTypes == <<"IB_DIRTYPE_ONOFF", "IB_DIRTYPE_PARAM1", "IB_DIRTYPE_PARAM2",
              "IB_DIRTYPE_LIST", "IB_DIRTYPE_OPFLAGS", "IB_DIRTYPE_SBLK1">>

DirShapes == {DirTypes[i] : i \in 1..Len(DirTypes)}

LuaNumbers == -1..13     \* -0.5, 0, 0.5, ..., 6.5

\* double to enum: the fraction is dropped
to_dirtype(luatype) == IF luatype >= 0 THEN luatype \div 2 ELSE 0 - ((0 - luatype) \div 2)

dirtype_name(k) == IF k \in 0..(Len(DirTypes) - 1) THEN DirTypes[k + 1] ELSE "invalid"

\* the callback modlua_config_register_directive picks for a type
modlua_config_cb(type) ==
    CASE type = "IB_DIRTYPE_ONOFF" -> "modlua_config_cb_onoff"
      [] type = "IB_DIRTYPE_PARAM1" -> "modlua_config_cb_param1"
      [] type = "IB_DIRTYPE_PARAM2" -> "modlua_config_cb_param2"
      [] type = "IB_DIRTYPE_LIST" -> "modlua_config_cb_list"
      [] type = "IB_DIRTYPE_OPFLAGS" -> "modlua_config_cb_opflags"
      [] type = "IB_DIRTYPE_SBLK1" -> "modlua_config_cb_sblk1"
      [] OTHER -> "none"

\* ib_config_register_directive: binds the name to the shape and handler.
ib_config_register_directive(dirs, name, type, cfg_cb, regrc) ==
    IF regrc # IB_OK THEN [rc |-> regrc, directives |-> dirs]
    ELSE [rc |-> IB_OK,
          directives |-> [dirs EXCEPT ![name] = [type |-> type, cfg_cb |-> cfg_cb]]]

\* a type outside the six shapes is registered with the one-parameter callback
modlua_config_register_directive_any_type(dirs, self_table, name, is_number, luatype, strval, allocrc, regrc) ==
    LET type == dirtype_name(to_dirtype(luatype))
    IN  IF ~self_table THEN [rc |-> IB_EINVAL, directives |-> dirs]
        ELSE IF name \notin DirNames THEN [rc |-> IB_EINVAL, directives |-> dirs]
        ELSE IF ~is_number THEN [rc |-> IB_EINVAL, directives |-> dirs]
        ELSE IF strval = "not a table" THEN [rc |-> IB_EINVAL, directives |-> dirs]
        ELSE IF allocrc # IB_OK THEN [rc |-> IB_EALLOC, directives |-> dirs]
        ELSE IF type \notin DirShapes
        THEN ib_config_register_directive(dirs, name, "IB_DIRTYPE_PARAM1",
                                          "modlua_config_cb_param1", regrc)
        ELSE ib_config_register_directive(dirs, name, type, modlua_config_cb(type), regrc)

\* self:register_directive(name, type [, strvalmap]) called from a Lua
\* module.  self_table: the 1st argument is the module's table; name: a
\* directive name or something that is no string; is_number: the 3rd
\* argument is a number, luatype (in halves); strval: the optional 4th argument;
\* allocrc: the two ib_mm_alloc; regrc: ib_config_register_directive.
modlua_config_register_directive(dirs, self_table, name, is_number, luatype, strval, allocrc, regrc) ==
    LET type == dirtype_name(to_dirtype(luatype))
    IN  IF ~self_table THEN [rc |-> IB_EINVAL, directives |-> dirs]
        ELSE IF name \notin DirNames THEN [rc |-> IB_EINVAL, directives |-> dirs]
        ELSE IF ~is_number THEN [rc |-> IB_EINVAL, directives |-> dirs]
        ELSE IF strval = "not a table" THEN [rc |-> IB_EINVAL, directives |-> dirs]
        ELSE IF strval = "map" /\ allocrc # IB_OK THEN [rc |-> IB_EALLOC, directives |-> dirs]
        ELSE IF type \notin DirShapes THEN [rc |-> IB_EINVAL, directives |-> dirs]
        ELSE IF allocrc # IB_OK THEN [rc |-> IB_EALLOC, directives |-> dirs]
        ELSE ib_config_register_directive(dirs, name, type, modlua_config_cb(type), regrc)

\* The shape of an invocation with nparams parameters, opening a block or not.
directive_matches(type, nparams, block) ==
    CASE type = "IB_DIRTYPE_ONOFF" -> nparams = 1 /\ ~block
      [] type = "IB_DIRTYPE_PARAM1" -> nparams = 1 /\ ~block
      [] type = "IB_DIRTYPE_PARAM2" -> nparams = 2 /\ ~block
      [] type = "IB_DIRTYPE_LIST" -> ~block
      [] type = "IB_DIRTYPE_OPFLAGS" -> ~block
      [] type = "IB_DIRTYPE_SBLK1" -> nparams = 1 /\ block
      [] OTHER -> FALSE

\* The parser meets `name p1 ... pn`: the handler registered under the name
\* is called when the invocation has the shape it was registered with.
directive_process(dirs, name, nparams, block) ==
    IF dirs[name] = NoDirective THEN [rc |-> IB_ENOENT, invoked |-> "none"]
    ELSE IF ~directive_matches(dirs[name].type, nparams, block)
    THEN [rc |-> IB_EINVAL, invoked |-> "none"]
    ELSE [rc |-> IB_OK, invoked |-> dirs[name].cfg_cb]

MaxParams == 3

\* A Lua module registers a directive.
LuaRegisterDirective(name) ==
    /\ name \in DirNames => directives[name] = NoDirective
    /\ \E self_table \in BOOLEAN, is_number \in BOOLEAN, luatype \in LuaNumbers,
          strval \in {"none", "not a table", "map"},
          allocrc \in {IB_OK, IB_EALLOC}, regrc \in {IB_OK, IB_EALLOC} :
          LET r == modlua_config_register_directive(directives, self_table, name, is_number,
                                                    luatype, strval, allocrc, regrc)
          IN  /\ directives' = r.directives
              /\ directive_call' =
                    [NoDirectiveCall EXCEPT
                        !.kind = "lua_register", !.name = name,
                        !.luatype = luatype,
                        !.type = IF is_number
                                 THEN dirtype_name(to_dirtype(luatype)) ELSE "invalid",
                        !.fault = (strval = "map" /\ allocrc # IB_OK),
                        !.rc = r.rc]
    /\ UNCHANGED <<corevars, bridgevars, workvars, rulevars, cfg_state, wiring,
                   reloadvars, patternvars, tailvars>>

\* The parser meets an invocation of `name`.
DirectiveInvoked(name, nparams, block) ==
    /\ LET r == directive_process(directives, name, nparams, block)
       IN  directive_call' = [NoDirectiveCall EXCEPT
                                 !.kind = "invoke", !.name = name,
                                 !.type = directives[name].type,
                                 !.nparams = nparams, !.block = block,
                                 !.rc = r.rc, !.invoked = r.invoked]
    /\ UNCHANGED <<corevars, bridgevars, workvars, rulevars, cfg_state, wiring,
                   reloadvars, patternvars, directives, tailvars>>

(***************************************************************************)
(* SpecDirectives: Lua modules register directives and the parser meets    *)
(* invocations of them.                                                    *)
(***************************************************************************)
NextDirectives ==
    \/ \E name \in DirNames \cup {"not a string"} : LuaRegisterDirective(name)
    \/ \E name \in DirNames, nparams \in 0..MaxParams, block \in BOOLEAN :
          DirectiveInvoked(name, nparams, block)

SpecDirectives == Init /\ [][NextDirectives]_vars

(***************************************************************************)
(* Properties of directives (under SpecDirectives).                        *)
(***************************************************************************)
\* C29: an invocation calls a handler only when its name is registered and
\* its shape is the registered one, and then the handler registered under
\* that name; an invocation of a registered name with another shape (a
\* two-parameter directive met with three parameters) returns IB_EINVAL and
\* calls nothing; a Lua registration whose type is none of the six shapes
\* registers nothing and returns IB_EINVAL (unless the allocation of its
\* value map has failed before), and every registered directive has one of
\* the six shapes and that shape's callback.
C29_RoutedByNameAndShape ==
    [][directive_call' # directive_call =>
          LET dc == directive_call'
          IN  /\ (dc.kind = "invoke" /\ dc.invoked # "none")
                    => /\ directives[dc.name] # NoDirective
                       /\ directive_matches(directives[dc.name].type, dc.nparams, dc.block)
                       /\ dc.invoked = directives[dc.name].cfg_cb
              /\ (dc.kind = "invoke" /\ directives[dc.name] # NoDirective
                    /\ ~directive_matches(directives[dc.name].type, dc.nparams, dc.block))
                    => (dc.rc = IB_EINVAL /\ dc.invoked = "none")
              /\ (dc.kind = "invoke" /\ directives[dc.name].type = "IB_DIRTYPE_PARAM2"
                    /\ dc.nparams = 3)
                    => (dc.rc = IB_EINVAL /\ dc.invoked = "none")
              /\ (dc.kind = "lua_register" /\ dc.type \notin DirShapes)
                    => /\ directives' = directives
                       /\ dc.rc # IB_OK
                       /\ ~dc.fault => dc.rc = IB_EINVAL
              /\ \A n \in DirNames :
                    directives'[n] # NoDirective
                       => /\ directives'[n].type \in DirShapes
                          /\ directives'[n].cfg_cb = modlua_config_cb(directives'[n].type)]_vars

\* "Foo", registered with the two-parameter shape, was met with three
\* parameters: IB_EINVAL, no handler called
C29_Witness ==
    /\ directive_call.kind = "invoke"
    /\ directive_call.name = "Foo"
    /\ directives["Foo"].type = "IB_DIRTYPE_PARAM2"
    /\ directive_call.nparams = 3
    /\ directive_call.rc = IB_EINVAL
    /\ directive_call.invoked = "none"

\* a Lua module asked for type 6 and got IB_EINVAL, nothing registered
C29_WitnessLuaType ==
    /\ directive_call.kind = "lua_register"
    /\ directive_call.luatype = 12
    /\ ~directive_call.fault
    /\ directive_call.rc = IB_EINVAL
    /\ directives[directive_call.name] = NoDirective

(***************************************************************************)
(* SpecErrors: one-shot calls of every operator instance and streaming     *)
(* calls of one, in one transaction, on list and string fields, with and   *)
(* without a capture target, in which the creation of the automaton state  *)
(* or a step of the capture construction fails.                            *)
(***************************************************************************)
ListField == [type |-> "IB_FTYPE_LIST", value |-> <<>>, valrc |-> IB_OK]

ErrorFields == BytestrFields({<<"/">>, SampleGE, SampleGET}) \cup {ListField}

ErrorFaults == {"none", "create_state"} \cup CaptureFaults

NextErrors ==
    \/ \E f \in ErrorFields, c \in Captures \cup {NullCapture}, fault \in ErrorFaults :
          StreamFeed("tx1", "op2", f, c, fault)
    \/ \E op \in OneShotOps, f \in ErrorFields, c \in Captures \cup {NullCapture},
          full \in BOOLEAN, fault \in ErrorFaults :
          OneShot("tx1", op, f, c, full, fault)
    \/ ResultTaken

SpecErrors == Init /\ [][NextErrors]_vars

(***************************************************************************)
(* Properties of the error paths (under SpecErrors).                       *)
(***************************************************************************)
\* A step in which an operator call runs and returns.
IsCall == last = NoCall /\ last' # NoCall

\* The call has to create an automaton state: every one-shot call, and a
\* streaming call of a pair that has none stored.
CreatesState == last'.kind \in {"ee", "ee_match"} \/ ~HasEntry(last'.tx, last'.op)

\* C26: a call on a list field returns IB_ENOTIMPL with result 0 (unless the
\* creation of its automaton state failed before the field was looked at); a
\* call whose automaton state cannot be created returns IB_EINVAL with result
\* 0, leaves no state live and no entry for the pair in the transaction's
\* store.
C26_ListAndCreationFailure ==
    [][IsCall =>
          /\ (last'.field.type = "IB_FTYPE_LIST"
                /\ ~(CreatesState /\ last'.fault = "create_state"))
                => (last'.rc = IB_ENOTIMPL /\ last'.result = 0)
          /\ (CreatesState /\ last'.fault = "create_state")
                => /\ last'.rc = IB_EINVAL
                   /\ last'.result = 0
                   /\ last'.created = last'.destroyed
                   /\ ee_data' = ee_data
                   /\ last'.kind = "ee_stream"
                         => ~(/\ module_data'[last'.tx].exists
                              /\ module_data'[last'.tx].entries[last'.op] # NoEntry)
                   /\ last'.kind # "ee_stream" => module_data' = module_data
                   /\ captures' = captures]_vars

\* a streaming call on a text field could not create its state: IB_EINVAL,
\* result 0, nothing stored
C26_Witness ==
    /\ last.kind = "ee_stream"
    /\ last.fault = "create_state"
    /\ last.field = Bytestr(SampleGET)
    /\ last.rc = IB_EINVAL
    /\ last.result = 0
    /\ ee_data = <<>>
    /\ ~HasEntry(last.tx, last.op)

\* a one-shot call on a list field: IB_ENOTIMPL, result 0
C26_WitnessList ==
    /\ last.kind = "ee_match"
    /\ last.field = ListField
    /\ last.fault = "none"
    /\ last.rc = IB_ENOTIMPL
    /\ last.result = 0

\* The one-shot call meets a match it records with a capture step failing.
CaptureFails(call) ==
    /\ call.kind \in {"ee", "ee_match"}
    /\ call.field.type \in {"IB_FTYPE_NULSTR", "IB_FTYPE_BYTESTR"}
    /\ call.field.valrc = IB_OK
    /\ call.capture # NullCapture
    /\ call.fault \in CaptureFaults
    /\ HasMatch(eudoxus_of(call.op), call.field.value)

\* C27: a call in which a step of the capture construction fails while a
\* match is recorded returns IB_EINVAL with result 0.
C27_CaptureFailureInvalid ==
    /\ CaptureFails(last) => (last.rc = IB_EINVAL /\ last.result = 0)
    /\ (last.kind = "ee_stream" /\ last.fault \in CaptureFaults
          /\ last.field.type = "IB_FTYPE_BYTESTR" /\ last.field.valrc = IB_OK
          /\ last.rc # IB_OK)
          => (last.rc = IB_EINVAL /\ last.result = 0)

\* ib_field_create failed while ee recorded the match "GET": the call
\* returned IB_EUNKNOWN
C27_Witness ==
    /\ last.kind = "ee"
    /\ last.op = "op1"
    /\ last.field = Bytestr(SampleGET)
    /\ last.capture = "cap1"
    /\ last.fault = "field_create"
    /\ last.rc = IB_EUNKNOWN
    /\ last.result = 0

\* what the code does on these paths: the matching is aborted at the first
\* recorded match and the call returns IB_EUNKNOWN with result 0
C27_CaptureFailureUnknown ==
    /\ CaptureFails(last) => (last.rc = IB_EUNKNOWN /\ last.result = 0)
    /\ (last.kind = "ee_stream" /\ last.fault \in CaptureFaults
          /\ last.field.type = "IB_FTYPE_BYTESTR" /\ last.field.valrc = IB_OK
          /\ last.rc # IB_OK)
          => (last.rc = IB_EUNKNOWN /\ last.result = 0)

(***************************************************************************)
(* The executions of the automaton inside one call: what each              *)
(* ia_eudoxus_execute of the loop of ee_operator_execute_common was given  *)
(* and what it returned.                                                   *)
(***************************************************************************)
\* the loop goes round again after every stop, accepted or not
RECURSIVE execute_runs_resume_always(_, _, _, _, _, _, _, _)
execute_runs_resume_always(eudoxus, data, input, input_len, full_match, caps, fault, garbage) ==
    LET x == ia_eudoxus_execute(eudoxus, data.node, input, data.ee_cbdata, caps, fault,
                                garbage)
        d1 == [data EXCEPT !.node = x.node, !.ee_cbdata = x.cb]
        run == [rem |-> Len(input), ia_rc |-> x.ia_rc, match_len |-> x.cb.match_len]
    IN  IF x.ia_rc = "IA_EUDOXUS_STOP"
        THEN <<run>> \o execute_runs_resume_always(eudoxus, d1, x.rem, input_len, full_match,
                                                   x.caps, fault, garbage)
        ELSE <<run>>

RECURSIVE execute_runs(_, _, _, _, _, _, _, _)
execute_runs(eudoxus, data, input, input_len, full_match, caps, fault, garbage) ==
    LET x == ia_eudoxus_execute(eudoxus, data.node, input, data.ee_cbdata, caps, fault,
                                garbage)
        d1 == [data EXCEPT !.node = x.node, !.ee_cbdata = x.cb]
        run == [rem |-> Len(input), ia_rc |-> x.ia_rc, match_len |-> x.cb.match_len]
    IN  IF x.ia_rc = "IA_EUDOXUS_STOP" /\ full_match /\ x.cb.match_len # input_len
        THEN <<run>> \o execute_runs(eudoxus, d1, x.rem, input_len, full_match, x.caps,
                                     fault, garbage)
        ELSE <<run>>

\* The ee_tx_data_t a call of kind `kind` hands to ee_operator_execute_common:
\* local to a one-shot call, stored or newly made for a streaming one.
data_of_call(kind, tx, op, capture) ==
    IF kind \in {"ee", "ee_match"}
    THEN [node |-> <<>>, ee_cbdata |-> [capture |-> capture, match_len |-> 0],
          end_of_automata |-> FALSE]
    ELSE IF HasEntry(tx, op) THEN ee_data[EntryOf(tx, op)]
    ELSE new_tx_data(tx, op, capture)

\* The call comes to the loop of ee_operator_execute_common.
ReachesLoop(call) ==
    /\ call.field.type \in {"IB_FTYPE_NULSTR", "IB_FTYPE_BYTESTR"}
    /\ call.field.valrc = IB_OK
    /\ call.fault # "create_state"

\* C30: in every call that comes to the loop the automaton is executed at
\* least once and at most once more than there are matches in the input;
\* every execution but the last stopped at a match that ee_match rejected
\* (its length is not the input's), and each execution starts with less
\* input left than the one before; ee and the streaming operator execute
\* the automaton once; the call's result is that of its last execution.
C30_ExecutionsBounded ==
    [][(IsCall /\ ReachesLoop(last')) =>
          LET call == last'
              full == call.kind = "ee_match"
              data == data_of_call(call.kind, call.tx, call.op, call.capture)
              v == call.field.value
              matches == IF call.kind = "ee_stream" THEN 1
                         ELSE Cardinality(MatchLens(eudoxus_of(call.op), v))
          IN  ~data.end_of_automata =>
                 \A garbage \in Uninit32 :
                    LET runs == execute_runs(eudoxus_of(call.op), data, v, Len(v), full,
                                             captures, call.fault, garbage)
                        n == Len(runs)
                    IN  /\ n >= 1
                        /\ n <= matches + 1
                        /\ ~full => n = 1
                        /\ \A i \in 1..(n - 1) :
                              /\ runs[i].ia_rc = "IA_EUDOXUS_STOP"
                              /\ runs[i].match_len # Len(v)
                              /\ runs[i + 1].rem < runs[i].rem
                        /\ call.kind # "ee_stream"
                              => (call.result = 1 <=> runs[n].ia_rc = "IA_EUDOXUS_STOP")]_vars

\* ee_match of "GET" against the words G, GE, GET: the first execution stops
\* at G, which is rejected, the second stops at GET
C30_Witness ==
    /\ last.kind = "ee_match"
    /\ last.op = "op3"
    /\ last.field = Bytestr(SampleGET)
    /\ last.fault = "none"
    /\ last.result = 1
    /\ Len(execute_runs(eudoxus_of("op3"), data_of_call("ee_match", last.tx, "op3", last.capture),
                        SampleGET, 3, TRUE, captures, "none", 0)) = 2

(***************************************************************************)
(* Log events raised from inside a bridged handler.  A handler that runs   *)
(* in ib_lua_pcall of a transaction callback may add a log event to its    *)
(* transaction; the engine then calls modlua_logevent on the same worker,  *)
(* before the handler goes on.  modlua_logevent looks up the               *)
(* configuration and calls modlua_acquirestate like every other callback,  *)
(* while the worker's outer callback still holds its runtime.              *)
(***************************************************************************)
TxCallbacks == {"modlua_tx", "modlua_txdata", "modlua_header", "modlua_reqline",
                "modlua_respline"}

\* The handler of w raises a log event: modlua_logevent is entered, and its
\* ib_context_module_config either fails (it returns at once) or succeeds.
LogeventRaised(w) ==
    /\ worker[w].pc = "run"
    /\ worker[w].callback \in TxCallbacks
    /\ nested[w].pc = "none"
    /\ \E cfgrc \in {IB_OK, IB_EOTHER} :
          nested' = [nested EXCEPT ![w] =
                        IF cfgrc = IB_OK
                        THEN [pc |-> "acquire", runtime |-> NoRuntime]
                        ELSE NoNested]
    /\ UNCHANGED <<corevars, bridgevars, workvars, rulevars, cfg_state, wiring,
                   reloadvars, patternvars, dirvars, afternested>>

\* modlua_acquirestate returns to the nested modlua_logevent of w.
LogeventAcquire(w) ==
    /\ nested[w].pc = "acquire"
    /\ \E acqrc \in {IB_OK, IB_EALLOC} :
          LET r == modlua_acquirestate(lua_created, lua_free, acqrc)
          IN  /\ ~r.blocked
              /\ lua_created' = r.created
              /\ lua_free' = r.free
              /\ nested' = [nested EXCEPT ![w] =
                               IF r.rc = IB_OK
                               THEN [pc |-> "run", runtime |-> r.runtime]
                               ELSE NoNested]
    /\ UNCHANGED <<lua_lost, worker, corevars, workvars, rulevars, cfg_state, wiring,
                   reloadvars, patternvars, dirvars, afternested>>

\* The rest of the nested modlua_logevent, up to its return to the handler.
LogeventRun(w) ==
    /\ nested[w].pc = "run"
    /\ \E outcome \in LogeventOutcomes, rc2 \in {IB_OK, IB_EOTHER} :
          LET r == modlua_logevent(outcome, rc2)
          IN  /\ lua_free' = IF r.released
                             THEN modlua_releasestate(lua_free, nested[w].runtime)
                             ELSE lua_free
              /\ lua_lost' = IF r.released THEN lua_lost
                             ELSE lua_lost \cup {nested[w].runtime}
    /\ nested' = [nested EXCEPT ![w] = NoNested]
    /\ UNCHANGED <<lua_created, worker, corevars, workvars, rulevars, cfg_state,
                   wiring, reloadvars, patternvars, dirvars, afternested>>

\* The outer callback of w returns once no callback is running inside it.
CallbackReturn(w) ==
    /\ nested[w].pc = "none"
    /\ CallbackRun(w)

(***************************************************************************)
(* SpecProgress: two workers dispatch hooks into the bridged callbacks of  *)
(* a pool of MaxInstances runtimes, and their handlers raise log events.   *)
(* Every handler body terminates and every callback that can go on does:   *)
(* a worker whose acquire can hand it a runtime again and again is served, *)
(* and a callback that can return does return.  An acquire that finds the  *)
(* pool exhausted is not made to fail: it waits.                           *)
(***************************************************************************)
\* The acquire of w's callback returns with a runtime.
AcquireServed(w) == CallbackAcquire(w) /\ worker'[w].pc = "run"

\* The acquire of the log-event callback nested in w returns with a runtime.
LogeventAcquireServed(w) == LogeventAcquire(w) /\ nested'[w].pc = "run"

NextProgress ==
    \/ \E w \in ReloadWorkers, callback \in LuaCallbacks : CallbackEnter(w, callback)
    \/ \E w \in ReloadWorkers : CallbackAcquire(w)
    \/ \E w \in ReloadWorkers : LogeventRaised(w)
    \/ \E w \in ReloadWorkers : LogeventAcquire(w)
    \/ \E w \in ReloadWorkers : LogeventRun(w)
    \/ \E w \in ReloadWorkers : CallbackReturn(w)

SpecProgress ==
    /\ Init
    /\ [][NextProgress]_vars
    /\ \A w \in ReloadWorkers :
          /\ SF_vars(AcquireServed(w))
          /\ SF_vars(LogeventAcquireServed(w))
          /\ WF_vars(LogeventRun(w))
          /\ SF_vars(CallbackReturn(w))

(***************************************************************************)
(* Properties of the pool under fair scheduling (under SpecProgress).      *)
(***************************************************************************)
\* w holds a runtime and its nested acquire finds the pool exhausted
HoldAndWait(w) ==
    /\ worker[w].pc = "run"
    /\ nested[w].pc = "acquire"
    /\ modlua_acquirestate(lua_created, lua_free, IB_OK).blocked

\* C31: no worker waits for a second runtime while it holds one, and every
\* worker that waits in an acquire, of a hook's callback or of a log-event
\* callback raised by its handler, eventually leaves the acquire.
C31_AcquireEventuallyServed ==
    /\ [](\A w \in ReloadWorkers : ~HoldAndWait(w))
    /\ \A w \in ReloadWorkers :
          /\ (worker[w].pc = "acquire") ~> (worker[w].pc # "acquire")
          /\ (nested[w].pc = "acquire") ~> (nested[w].pc # "acquire")

\* every runtime the pool may create is out of the pool, and every worker
\* that could return one waits in the acquire of a nested log-event callback
C31_Witness ==
    /\ lua_created = MaxInstances
    /\ lua_free = {}
    /\ \A w \in ReloadWorkers : HoldAndWait(w)

\* the hook's own acquire alone: a worker that holds no runtime and waits
\* for one is eventually served, as long as no runtime was lost
C31_OuterAcquireServed ==
    \A w \in ReloadWorkers :
       (worker[w].pc = "acquire") ~> (worker[w].pc # "acquire" \/ lua_lost # {})

(***************************************************************************)
(* SpecInstances: two operator instances created from the same pattern     *)
(* (op2 and op4: distinct ids, one automaton) are fed in streaming mode in *)
(* one transaction, with and without a capture target.                     *)
(***************************************************************************)
TwinOps == {"op2", "op4"}

TwinInputs == {<<"G">>, <<"E">>, <<"T">>, <<"/">>, SampleGE, SampleGET}

NextInstances ==
    \/ \E op \in TwinOps, f \in BytestrFields(TwinInputs),
          c \in Captures \cup {NullCapture} : StreamFeed("tx1", op, f, c, "none")
    \/ ResultTaken

SpecInstances == Init /\ [][NextInstances]_vars

\* C32: a streaming feed of one instance in a transaction leaves the store
\* key and the record (cursor, match length, end-of-automata flag) of every
\* other instance of that transaction as they were, and two instances of a
\* transaction never share a record, also when they run the same automaton.
C32_InstancesSeparate ==
    [][\A t \in Txs, op \in StreamOps :
          (IsFeed /\ last'.tx = t /\ last'.op = op) =>
             /\ \A o \in StreamOps \ {op} :
                   /\ EntryOf(t, o)' = EntryOf(t, o)
                   /\ HasEntry(t, o) => ee_data'[EntryOf(t, o)] = ee_data[EntryOf(t, o)]
             /\ \A o1, o2 \in StreamOps :
                   (o1 # o2 /\ HasEntry(t, o1)' /\ HasEntry(t, o2)')
                      => EntryOf(t, o1)' # EntryOf(t, o2)']_vars

\* op4 was fed its first byte while the record of op2, an instance of the
\* same automaton in the same transaction, had reached end-of-automata
C32_Witness ==
    /\ last.kind = "ee_stream"
    /\ last.tx = "tx1"
    /\ last.op = "op4"
    /\ eudoxus_of("op2") = eudoxus_of("op4")
    /\ HasEntry("tx1", "op2") /\ HasEntry("tx1", "op4")
    /\ ee_data[EntryOf("tx1", "op2")].end_of_automata
    /\ ee_data[EntryOf("tx1", "op4")].node = <<"G">>
    /\ ~ee_data[EntryOf("tx1", "op4")].end_of_automata

(***************************************************************************)
(* The transient state of the one-shot operators (under SpecErrors).       *)
(***************************************************************************)
IsOneShot == IsCall /\ last'.kind \in {"ee", "ee_match"}

\* C33: a one-shot call whose automaton state was created has destroyed that
\* one state when it returns, whether it matched, did not match, was given a
\* field it does not support or met an automaton error; no one-shot call
\* destroys what it did not create, and none changes the transaction's store
\* or a streaming record.
C33_OneShotTransient ==
    [][IsOneShot =>
         /\ last'.fault # "create_state" => last'.created = 1
         /\ last'.created <= 1
         /\ last'.destroyed = last'.created
         /\ module_data' = module_data
         /\ ee_data' = ee_data]_vars

\* a one-shot call ended in an automaton error with its state created and
\* destroyed once, in a transaction that holds a live streaming record
C33_Witness ==
    /\ last.kind \in {"ee", "ee_match"}
    /\ last.rc = IB_EUNKNOWN
    /\ last.created = 1 /\ last.destroyed = 1
    /\ HasEntry(last.tx, "op2")
    /\ ee_data[EntryOf(last.tx, "op2")].eudoxus_state = "live"

\* a one-shot call on a list field created and destroyed its state
C33_WitnessUnsupported ==
    /\ last.kind \in {"ee", "ee_match"}
    /\ last.field = ListField
    /\ last.rc = IB_ENOTIMPL
    /\ last.created = 1 /\ last.destroyed = 1

(***************************************************************************)
(* The arguments a bridged callback pushes for the Lua handler.  A         *)
(* connection has a context, a transaction has a context and a             *)
(* connection; NULL stands for the null pointer.                           *)
(***************************************************************************)
Contexts == {"main", "site", "location"}

NULL == [null |-> TRUE]

Conns == {[ctx |-> c] : c \in Contexts}

TxEntities == {[ctx |-> c, conn |-> k] : c \in Contexts, k \in Conns}

\* ib_context_get_context: the context of the transaction if there is one,
\* else that of the connection if there is one, else the main context.
ib_context_get_context(conn, tx) ==
    IF tx # NULL THEN tx.ctx
    ELSE IF conn # NULL THEN conn.ctx
    ELSE "main"

\* modlua_callback_setup: the context, connection and transaction it pushes
\* (the engine, the module and the state number are pushed before them).
modlua_callback_setup(tx, conn, outcome) ==
    IF outcome \in {"push_dispatcher", "push_lua_handler"}
    THEN [rc |-> IB_EOTHER, args |-> <<>>]
    ELSE [rc |-> IB_OK,
          args |-> [ctx |-> ib_context_get_context(conn, tx), conn |-> conn, tx |-> tx]]

\* The call of modlua_callback_setup each bridged callback makes; event is
\* the payload the hook was dispatched with.
callback_setup_of(callback, event, outcome) ==
    CASE callback \in {"modlua_null", "modlua_ctx"} ->
            modlua_callback_setup(NULL, NULL, outcome)
      [] callback = "modlua_conn" -> modlua_callback_setup(NULL, event.conn, outcome)
      [] OTHER -> modlua_callback_setup(event.tx, event.tx.conn, outcome)

\* The payloads a callback may be dispatched with.
Events(callback) ==
    CASE callback = "modlua_null" -> {[shape |-> "null"]}
      [] callback = "modlua_ctx" -> {[shape |-> "ctx", ctx |-> c] : c \in Contexts}
      [] callback = "modlua_conn" -> {[shape |-> "conn", conn |-> k] : k \in Conns}
      [] OTHER -> {[shape |-> "tx", tx |-> x] : x \in TxEntities}

SetupCallbacks == LuaCallbacks \ {"modlua_logevent"}

\* A bridged callback, holding a runtime, sets up the handler's arguments.
HandlerArgsPushed(callback, event) ==
    /\ \E outcome \in {"push_dispatcher", "push_lua_handler", "ok"} :
          LET r == callback_setup_of(callback, event, outcome)
          IN  pushed' = [callback |-> callback, event |-> event, rc |-> r.rc,
                         args |-> r.args]
    /\ UNCHANGED <<corevars, bridgevars, workvars, rulevars, cfg_state, wiring,
                   reloadvars, patternvars, dirvars, nested, afterpushed>>

(***************************************************************************)
(* SpecArgs: every bridged hook callback is dispatched with every payload  *)
(* of its shape, over three contexts.                                      *)
(***************************************************************************)
NextArgs ==
    \E callback \in SetupCallbacks :
       \E event \in Events(callback) : HandlerArgsPushed(callback, event)

SpecArgs == Init /\ [][NextArgs]_vars

\* The context of the entity an event was delivered for.
EntityContext(event) ==
    CASE event.shape = "ctx" -> event.ctx
      [] event.shape = "conn" -> event.conn.ctx
      [] event.shape = "tx" -> event.tx.ctx
      [] OTHER -> "main"

\* C34: the handler receives the context of the entity the event was
\* delivered for (the event's context argument, the connection's context,
\* the transaction's context), and a null connection or transaction exactly
\* when the event carries none.
C34_ContextOfEntity ==
    (pushed # NoPushed /\ pushed.rc = IB_OK) =>
       /\ pushed.args.ctx = EntityContext(pushed.event)
       /\ pushed.args.conn = NULL <=> pushed.event.shape \in {"null", "ctx"}
       /\ pushed.args.tx = NULL <=> pushed.event.shape \in {"null", "ctx", "conn"}

\* a context event for a context other than the main one reached the handler
\* with the main context
C34_Witness ==
    /\ pushed.callback = "modlua_ctx"
    /\ pushed.rc = IB_OK
    /\ pushed.event.ctx = "location"
    /\ pushed.args.ctx = "main"

\* what holds: connection and transaction events carry the context of their
\* entity, context events carry the main context, and null is passed exactly
\* for what the event does not carry
C34_ContextOfConnOrTx ==
    (pushed # NoPushed /\ pushed.rc = IB_OK) =>
       /\ pushed.event.shape \in {"conn", "tx"}
             => pushed.args.ctx = EntityContext(pushed.event)
       /\ pushed.event.shape \in {"null", "ctx"} => pushed.args.ctx = "main"
       /\ pushed.args.conn = NULL <=> pushed.event.shape \in {"null", "ctx"}
       /\ pushed.args.tx = NULL <=> pushed.event.shape \in {"null", "ctx", "conn"}

(***************************************************************************)
(* Matches in later streaming feeds (under Spec).                          *)
(***************************************************************************)
\* Reading v from `node`, the automaton enters a node that has an output.
ReachesMatch(eudoxus, node, v) ==
    \E n \in 1..Len(v) : node \o SubSeq(v, 1, n) \in Words(eudoxus)

\* C35: every streaming feed during which the automaton reaches a match
\* returns result 1, whether or not an earlier feed of the pair matched.
C35_EveryMatchingFeedReported ==
    [][(IsFeed /\ last'.fault = "none" /\ last'.field.type = "IB_FTYPE_BYTESTR"
              /\ last'.field.valrc = IB_OK) =>
         LET e == EntryOf(last'.tx, last'.op)
             node == IF e = NoEntry THEN <<>> ELSE ee_data[e].node
             latched == e # NoEntry /\ ee_data[e].end_of_automata
         IN  (~latched /\ ReachesMatch(eudoxus_of(last'.op), node, last'.field.value))
                => last'.result = 1]_vars

\* after a feed that matched GE, the feed of T brought the automaton to the
\* output of GET and returned result 0
C35_Witness ==
    /\ last.kind = "ee_stream"
    /\ last.op = "op2"
    /\ last.field = Bytestr(<<"T">>)
    /\ last.rc = IB_OK
    /\ last.result = 0
    /\ HasEntry(last.tx, "op2")
    /\ ee_data[EntryOf(last.tx, "op2")].node = SampleGET
    /\ ee_data[EntryOf(last.tx, "op2")].ee_cbdata.match_len = 0

(***************************************************************************)
(* The record the first streaming call creates (under Spec).               *)
(***************************************************************************)
\* The shortest word of the automaton that is a prefix of v.
FirstMatch(eudoxus, v) ==
    LET ns == {n \in 1..Len(v) : SubSeq(v, 1, n) \in Words(eudoxus)}
    IN  SubSeq(v, 1, CHOOSE n \in ns : \A k \in ns : n <= k)

\* C36: the record the first streaming call of a pair creates starts with
\* match length 0 and end-of-automata false: when that call's chunk reaches
\* no output the stored match length is 0, and when it reaches one the
\* callback records that first match and stops: result 1, the cursor at the
\* first match, its length stored, the flag clear.
C36_FreshStateRecordsFirstMatch ==
    [][(IsFeed /\ last'.fault = "none" /\ last'.field.type = "IB_FTYPE_BYTESTR"
              /\ last'.field.valrc = IB_OK /\ EntryOf(last'.tx, last'.op) = NoEntry) =>
         LET eudoxus == eudoxus_of(last'.op)
             v == last'.field.value
             d == ee_data'[Len(ee_data')]
         IN  /\ Len(ee_data') = Len(ee_data) + 1
             /\ ReachesMatch(eudoxus, <<>>, v) =>
                   /\ last'.result = 1
                   /\ d.node = FirstMatch(eudoxus, v)
                   /\ d.ee_cbdata.match_len = Len(FirstMatch(eudoxus, v))
                   /\ ~d.end_of_automata
             /\ ~ReachesMatch(eudoxus, <<>>, v) => d.ee_cbdata.match_len = 0]_vars

\* the first match callback of a pair, at GET, took the match for a second
\* one: the feed of GET to the automaton of GET returned result 0
C36_Witness ==
    /\ last.kind = "ee_stream"
    /\ last.op = "op1"
    /\ last.field = Bytestr(SampleGET)
    /\ last.rc = IB_OK
    /\ last.result = 0
    /\ HasEntry(last.tx, "op1")
    /\ ee_data[EntryOf(last.tx, "op1")].node = SampleGET
    /\ ee_data[EntryOf(last.tx, "op1")].ee_cbdata.match_len = 0

\* a record whose match length was never assigned lies in the store
C36_WitnessIndeterminate ==
    \E i \in DOMAIN ee_data : ee_data[i].ee_cbdata.match_len = IndeterminateLen

(***************************************************************************)
(* The capture target of a streaming feed (under Spec).                    *)
(***************************************************************************)
\* C37: a streaming feed that records a match writes the matched bytes to
\* the capture target of that very call, whatever target the first call of
\* the pair was given, and writes nothing when the call has no target.
C37_CaptureOfThisFeed ==
    [][(IsFeed /\ last'.fault = "none" /\ last'.rc = IB_OK /\ last'.result = 1) =>
         \A t \in Txs, op \in StreamOps :
            (last'.tx = t /\ last'.op = op) =>
               /\ last'.capture # NullCapture =>
                     captures'[last'.capture] = ee_data'[EntryOf(t, op)'].node
               /\ last'.capture = NullCapture => captures' = captures]_vars

\* a feed that was given cap1 recorded a match and left cap1 as it was: the
\* first call of the pair had no capture target
C37_Witness ==
    /\ last.kind = "ee_stream"
    /\ last.capture = "cap1"
    /\ last.fault = "none"
    /\ last.result = 1
    /\ HasEntry(last.tx, last.op)
    /\ ee_data[EntryOf(last.tx, last.op)].ee_cbdata.capture = NullCapture
    /\ captures["cap1"] # ee_data[EntryOf(last.tx, last.op)].node

\* what holds: a recorded match goes to the target of the pair's first call
C37_CaptureOfFirstCall ==
    [][(IsFeed /\ last'.fault = "none" /\ last'.rc = IB_OK /\ last'.result = 1) =>
         \A t \in Txs, op \in StreamOps :
            (last'.tx = t /\ last'.op = op) =>
               LET d == ee_data'[EntryOf(t, op)']
               IN  /\ d.ee_cbdata.capture # NullCapture =>
                         captures'[d.ee_cbdata.capture] = d.node
                   /\ d.ee_cbdata.capture = NullCapture => captures' = captures]_vars

(***************************************************************************)
(* The capture collection of an ee_match call that does not match (under   *)
(* SpecOneShot).                                                           *)
(***************************************************************************)
\* C38: an ee_match call in which nothing fails and that returns result 0
\* leaves every capture collection, the one it was given included, as it
\* was before the call.
C38_NoMatchLeavesCapture ==
    [][(IsCall /\ last'.kind = "ee_match" /\ last'.fault = "none"
              /\ last'.rc = IB_OK /\ last'.result = 0) =>
         captures' = captures]_vars

\* ee_match of "GET /" against the automaton of GET returned result 0 and
\* left GET in the collection it was given
C38_Witness ==
    /\ last.kind = "ee_match"
    /\ last.op = "op1"
    /\ last.field = Bytestr(SampleGETSpSlash)
    /\ last.capture = "cap1"
    /\ last.fault = "none"
    /\ last.rc = IB_OK
    /\ last.result = 0
    /\ captures["cap1"] = SampleGET

\* what holds: an ee_match call without a capture target, and one whose
\* input reaches no output of the automaton, leaves the collections alone
C38_NoCallbackLeavesCapture ==
    [][(IsCall /\ last'.kind = "ee_match" /\ last'.fault = "none"
              /\ last'.field.type = "IB_FTYPE_BYTESTR" /\ last'.field.valrc = IB_OK
              /\ (last'.capture = NullCapture
                  \/ ~ReachesMatch(eudoxus_of(last'.op), <<>>, last'.field.value))) =>
         captures' = captures]_vars

(***************************************************************************)
(* The status a bridged callback returns.  The release of the runtime      *)
(* fails with a status of its own, so that what the callback returns tells *)
(* the handler path's failure from the release's.                          *)
(***************************************************************************)
ReleaseStatuses == {IB_OK, IB_EUNKNOWN}

\* The rest of the callback of w, up to its return, with the status on record.
CallbackReturns(w) ==
    /\ worker[w].pc = "run"
    /\ \E outcome \in Outcomes(worker[w].callback), rc2 \in ReleaseStatuses :
          LET r == bridged_callback(worker[w].callback, outcome, rc2)
          IN  /\ lua_free' = IF r.released
                             THEN modlua_releasestate(lua_free, worker[w].runtime)
                             ELSE lua_free
              /\ lua_lost' = IF r.released THEN lua_lost
                             ELSE lua_lost \cup {worker[w].runtime}
              /\ returned' = [callback |-> worker[w].callback, outcome |-> outcome,
                              rc2 |-> rc2, rc |-> r.rc, released |-> r.released]
    /\ worker' = [worker EXCEPT ![w] = Idle]
    /\ UNCHANGED <<lua_created, corevars, workvars, rulevars, cfg_state, wiring,
                   reloadvars, patternvars, dirvars, nested, pushed, afterreturned>>

(***************************************************************************)
(* SpecStatus: one worker dispatches hooks into the bridged callbacks;     *)
(* every step of a callback and the release may fail.                      *)
(***************************************************************************)
NextStatus ==
    \/ \E callback \in LuaCallbacks : CallbackEnter("w1", callback)
    \/ CallbackAcquire("w1")
    \/ CallbackReturns("w1")

SpecStatus == Init /\ [][NextStatus]_vars

\* The status of the step of the handler path that failed (IB_OK: none did).
HandlerPathStatus(outcome) ==
    CASE outcome = "ok" -> IB_OK
      [] outcome \in {"modlua_nil", "modlua_not_table", "dispatch_nil",
                      "dispatch_not_function"} -> IB_EINVAL
      [] OTHER -> IB_EOTHER

\* C39: a bridged callback that got its runtime returns the handler path's
\* status whenever that is a failure, also when the release fails too; it
\* returns the release's failure only when the handler path succeeded; and
\* it returns IB_OK only when both succeeded.
C39_HandlerStatusFirst ==
    [][(worker["w1"].pc = "run" /\ worker'["w1"].pc = "idle") =>
         LET h == HandlerPathStatus(returned'.outcome)
         IN  /\ returned'.callback = worker["w1"].callback
             /\ h # IB_OK => returned'.rc = h
             /\ (h = IB_OK /\ returned'.rc2 # IB_OK) => returned'.rc = returned'.rc2
             /\ returned'.rc = returned'.rc2 /\ returned'.rc2 # IB_OK => h = IB_OK
             /\ returned'.rc = IB_OK <=> (h = IB_OK /\ returned'.rc2 = IB_OK)
             /\ h = IB_OK => returned'.released]_vars

\* the handler of modlua_tx failed and so did the release: the callback
\* returned the handler's status
C39_Witness ==
    /\ returned.callback = "modlua_tx"
    /\ returned.outcome = "pcall"
    /\ returned.released
    /\ returned.rc2 = IB_EUNKNOWN
    /\ returned.rc = IB_EOTHER

\* the handler path of modlua_logevent succeeded and the release failed
C39_WitnessRelease ==
    /\ returned.callback = "modlua_logevent"
    /\ returned.outcome = "ok"
    /\ returned.rc2 = IB_EUNKNOWN
    /\ returned.rc = IB_EUNKNOWN

(***************************************************************************)
(* The load of a Lua module.  modlua_module_load creates the module and    *)
(* registers it with the engine, which calls its initialisation function   *)
(* modlua_luamod_init: load the script into the main runtime, record the   *)
(* file for reloading, wire the callbacks.                                 *)
(***************************************************************************)
\* An initialisation that wires the callbacks before it loads the script.
modlua_luamod_init_wire_first(hs, n, levs, m, loadrc, recordrc, mmrc, levprobe, probe, allocrc) ==
    LET r == modlua_module_load_wire_callbacks(hs, n, levs, m, mmrc, levprobe, probe, allocrc)
    IN  [rc |-> IF r.rc # IB_OK THEN r.rc ELSE IF loadrc # IB_OK THEN loadrc ELSE recordrc,
         steps |-> <<"modlua_module_load_wire_callbacks", "modlua_module_config_lua",
                     "modlua_record_reload">>,
         loaded |-> loadrc = IB_OK, recorded |-> loadrc = IB_OK /\ recordrc = IB_OK,
         hooks |-> r.hooks, nreg |-> r.nreg, logevent_hooks |-> r.logevent_hooks]

modlua_luamod_init(hs, n, levs, m, loadrc, recordrc, mmrc, levprobe, probe, allocrc) ==
    IF loadrc # IB_OK
    THEN [rc |-> loadrc, steps |-> <<"modlua_module_config_lua">>,
          loaded |-> FALSE, recorded |-> FALSE,
          hooks |-> hs, nreg |-> n, logevent_hooks |-> levs]
    ELSE IF recordrc # IB_OK
    THEN [rc |-> recordrc, steps |-> <<"modlua_module_config_lua", "modlua_record_reload">>,
          loaded |-> TRUE, recorded |-> FALSE,
          hooks |-> hs, nreg |-> n, logevent_hooks |-> levs]
    ELSE LET r == modlua_module_load_wire_callbacks(hs, n, levs, m, mmrc, levprobe, probe,
                                                    allocrc)
         IN  [rc |-> r.rc,
              steps |-> <<"modlua_module_config_lua", "modlua_record_reload",
                          "modlua_module_load_wire_callbacks">>,
              loaded |-> TRUE, recorded |-> TRUE,
              hooks |-> r.hooks, nreg |-> r.nreg, logevent_hooks |-> r.logevent_hooks]

\* What makes modlua_module_load return before the module is registered.
EarlyFaults == {"none", "stat", "alloc_cbdata", "strdup", "module_create"}

early_rc(early) ==
    CASE early = "stat" -> IB_ENOENT
      [] early = "module_create" -> IB_EOTHER
      [] OTHER -> IB_EALLOC

\* ib_module_register calls the module's initialisation function and returns
\* its status.
modlua_module_load(hs, n, levs, m, early, loadrc, recordrc, mmrc, levprobe, probe, allocrc) ==
    IF early # "none"
    THEN [rc |-> early_rc(early), steps |-> <<>>, loaded |-> FALSE, recorded |-> FALSE,
          hooks |-> hs, nreg |-> n, logevent_hooks |-> levs]
    ELSE modlua_luamod_init(hs, n, levs, m, loadrc, recordrc, mmrc, levprobe, probe, allocrc)

\* The configuration asks for Lua module m to be loaded.
LuaModuleLoaded(m) ==
    /\ m \notin wired
    /\ \A s \in States : Len(hooks[s]) < MaxHooks
    /\ \E early \in EarlyFaults, loadrc \in {IB_OK, IB_EINVAL}, recordrc \in {IB_OK, IB_EALLOC},
          mmrc \in {IB_OK, IB_EOTHER}, levprobe \in {IB_OK, IB_ENOENT},
          probe \in [States -> {IB_OK, IB_ENOENT}], allocrc \in [States -> {IB_OK, IB_EALLOC}] :
          LET r == modlua_module_load(hooks, nreg, logevent_hooks, m, early, loadrc,
                                      recordrc, mmrc, levprobe, probe, allocrc)
          IN  /\ hooks' = r.hooks
              /\ nreg' = r.nreg
              /\ logevent_hooks' = r.logevent_hooks
              /\ luamod' = [module |-> m, early |-> early, loadrc |-> loadrc,
                            recordrc |-> recordrc, steps |-> r.steps, loaded |-> r.loaded,
                            recorded |-> r.recorded, rc |-> r.rc]
    /\ wired' = wired \cup {m}
    /\ UNCHANGED <<ran, delivery, eevars, bridgevars, workvars, rulevars, cfg_state, wiring,
                   reloadvars, patternvars, dirvars, nested, pushed, returned>>

(***************************************************************************)
(* SpecModuleInit: native modules register hooks and a Lua module is       *)
(* loaded, with every step of the load failing or succeeding.              *)
(***************************************************************************)
NextModuleInit ==
    \/ \E s \in States, m \in NativeModules : RegisterHook(s, ib_state_hook_type(s), m)
    \/ \E m \in LuaModules : LuaModuleLoaded(m)

SpecModuleInit == HooksInit /\ [][NextModuleInit]_vars

\* C40: in the load of a Lua module the callbacks are wired only after the
\* script was loaded into the main runtime and the reload record was stored,
\* in that order; when the load of the script or the record fails, no hook
\* and no log-event callback of the module is registered and the
\* initialisation returns that failure.
C40_HooksAfterLoadAndRecord ==
    [][\A m \in LuaModules :
          (m \notin wired /\ m \in wired') =>
             /\ luamod'.module = m
             /\ (hooks' # hooks \/ logevent_hooks' # logevent_hooks) =>
                   /\ luamod'.loaded /\ luamod'.recorded
                   /\ luamod'.steps = <<"modlua_module_config_lua", "modlua_record_reload",
                                        "modlua_module_load_wire_callbacks">>
             /\ (luamod'.early = "none" /\ luamod'.loadrc # IB_OK) =>
                   /\ hooks' = hooks /\ logevent_hooks' = logevent_hooks
                   /\ luamod'.rc = luamod'.loadrc
                   /\ ~luamod'.recorded
             /\ (luamod'.early = "none" /\ luamod'.loadrc = IB_OK
                                        /\ luamod'.recordrc # IB_OK) =>
                   /\ hooks' = hooks /\ logevent_hooks' = logevent_hooks
                   /\ luamod'.rc = luamod'.recordrc
             /\ \A i \in 1..Len(luamod'.steps) :
                   luamod'.steps[i] = "modlua_module_load_wire_callbacks" =>
                      /\ i = 3
                      /\ luamod'.steps[1] = "modlua_module_config_lua"
                      /\ luamod'.steps[2] = "modlua_record_reload"]_vars

\* the script was loaded, the reload record stored, and then a hook of the
\* module registered behind a native module's hook
C40_Witness ==
    /\ luamod.module = "lua1"
    /\ luamod.rc = IB_OK
    /\ luamod.loaded /\ luamod.recorded
    /\ Len(luamod.steps) = 3
    /\ \E s \in States :
          /\ Len(hooks[s]) = 2
          /\ hooks[s][1].module \in NativeModules
          /\ hooks[s][2].module = "lua1"

\* the reload record could not be stored: the script is loaded, no hook of
\* the module is registered, the failure is returned
C40_WitnessRecordFails ==
    /\ luamod.module = "lua1"
    /\ luamod.loaded /\ ~luamod.recorded
    /\ luamod.rc = IB_EALLOC
    /\ \A s \in States : \A i \in 1..Len(hooks[s]) : hooks[s][i].module # "lua1"
    /\ logevent_hooks = <<>>

============================================================================
